---- MODULE Spec2Model ----
(***************************************************************************)
(* State-machine model of the RAG question-answering service:              *)
(*   - RAGService (app/services/rag_service.py): vector index, the two     *)
(*     metadata maps, persistence, search and answer                       *)
(*   - the document API (app/api/endpoints/documents.py): status map,      *)
(*     upload, background ingestion, delete                                *)
(*   - the Q&A API (app/api/endpoints/qa.py): chat sessions                *)
(*   - RateLimitDependency (app/api/deps.py)                               *)
(* Handlers are coroutines on one event loop: a step of the model is the   *)
(* code between two suspension points (an await of an external call).      *)
(***************************************************************************)
EXTENDS Integers, Sequences, FiniteSets, TLC

VARIABLES
    index,            \* RAGService.index: NoIndex (None) or the vector count ntotal
    chunk_metadata,   \* RAGService.chunk_metadata: row index -> chunk record
    document_chunks,  \* RAGService.document_chunks: document id -> row indices
    initialized,      \* RAGService._initialized
    disk,             \* the two persisted artifacts faiss.index / metadata.pkl
    tasks,            \* add_document calls in flight (one record per coroutine)
    llm,              \* RAGService.llm: the chat model's temperature and max_tokens
    deleted,          \* history: ids whose delete returned true and that were not added since
    processing_status,\* documents.processing_status: document id -> status record
    status_keys,      \* the keys of processing_status in the dict's insertion order
    bg,               \* background ingestion tasks of the uploads
    uploads,          \* history: the number of upload requests that reached the handler
    temp_files,       \* the temporary files of uploads that exist, by the number of their request
    chat_sessions,    \* qa.chat_sessions: session id -> the session dict (an object reference)
    session_objs,     \* the session dicts: reference -> [messages, user, created_at, last_updated]
    chats,            \* chat calls in flight
    turns,            \* history: the number of chat calls made
    now,              \* the wall clock, in seconds
    request_history,  \* RateLimitDependency.request_history of each limiter
    checks,           \* limiter calls in flight (one record per worker thread)
    admitted,         \* history: the timestamps of the requests each limiter let through
    requests,         \* history: the number of limiter calls / middleware dispatches made
    stream,           \* the event generator of one POST /qa/ask/stream request
    batch,            \* one process_and_answer_questions call of the URL document service
    http,             \* one HTTP request on its way through the middleware stack
    environ,          \* os.environ: the value of GOOGLE_API_KEY ("" when it is not set)
    settings_cache,   \* the lru_cache of get_settings: NoSettings or the cached object
    built,            \* the Settings objects built so far: object number -> its google_api_key
    url_rag,          \* the RAGService of the URLDocumentService of one /hackrx/run request
    request_counts,   \* RateLimitingMiddleware.request_counts: (ip, minute window) -> count
    passed,           \* history: per client ip, the times of its counted requests passed on
    resp              \* the result of the operation that finished last

ragVars == <<index, chunk_metadata, document_chunks, initialized, disk, tasks, llm, deleted>>
docVars == <<processing_status, status_keys, bg, uploads, temp_files>>
qaVars == <<chat_sessions, session_objs, chats, turns>>
rateVars == <<now, request_history, checks, admitted, requests>>
apiVars == <<stream, batch>>
cfgVars == <<environ, settings_cache, built>>
ipVars == <<request_counts, passed>>
appVars == <<http, cfgVars, url_rag, ipVars>>
vars == <<index, chunk_metadata, document_chunks, initialized, disk, tasks, llm, deleted,
          processing_status, status_keys, bg, uploads, temp_files, chat_sessions, session_objs, chats, turns, now, request_history,
          checks, admitted, requests, stream, batch, http, environ, settings_cache,
          built, url_rag, request_counts, passed, resp>>

----------------------------------------------------------------------------
\* Bounds of the model
MaxChunks == 2        \* a document has 0..MaxChunks chunks
MaxTasks == 2         \* concurrent add_document coroutines
MaxRows == 3          \* cap on the vector count of the index
MaxUploads == 2       \* accepted uploads
MaxTurns == 2         \* chat calls made
MaxChats == 2         \* chat calls in flight at once
MaxCalls == 3         \* limiter calls made after the initial state
MaxThreads == 2       \* limiter calls in flight at once
MaxQuestions == 2     \* questions of one process_and_answer_questions call
MaxRequests == 2      \* HTTP requests sent to the application
MaxSources == 4       \* search results of one answer_question call
MaxSettings == 3      \* Settings objects built
\* k / max_results arguments of a query
KValues == {0, 1, 2}

\* the document ids in use
DocIds == {"doc_a", "doc_b"}

\* batch_size arguments in use
DefaultBatchSize == 50
BatchSizes == {1, DefaultBatchSize}
Tasks == 1..MaxTasks

----------------------------------------------------------------------------
\* Small helpers
Min(a, b) == IF a < b THEN a ELSE b

Range(s) == {s[i] : i \in 1..Len(s)}

\* range(a, b) of Python as a sequence
PyRange(a, b) == [i \in 1..(IF b > a THEN b - a ELSE 0) |-> a + i - 1]

\* dict without one key / without a set of keys
DictDrop(f, keys) == [x \in (DOMAIN f) \ keys |-> f[x]]

\* dict with one key set
DictPut(f, k, v) == [x \in (DOMAIN f) \cup {k} |-> IF x = k THEN v ELSE f[x]]

EmptyDict == [x \in {} |-> 0]

----------------------------------------------------------------------------
\* RAGService: construction, load and save

NoIndex == -1

\* the vector-store directory: faiss.index (its vector count, NoIndex when the
\* file is absent) and metadata.pkl (has_meta, with the two pickled maps)
NoFile == [index |-> NoIndex, has_meta |-> FALSE, chunk_metadata |-> EmptyDict,
           document_chunks |-> EmptyDict]

DiskPresent == disk.index # NoIndex /\ disk.has_meta

IdleTask == [pc |-> "idle", doc |-> "", n |-> 0, bs |-> 0, rows |-> <<>>]

\* _load_index: both artifacts present and readable -> take them over;
\* otherwise (one absent, or reading raised) a new empty index, maps untouched
LoadIndex(loadOk) ==
    IF DiskPresent /\ loadOk
    THEN [index |-> disk.index, chunk_metadata |-> disk.chunk_metadata,
          document_chunks |-> disk.document_chunks]
    ELSE [index |-> 0, chunk_metadata |-> chunk_metadata,
          document_chunks |-> document_chunks]

\* _ensure_initialized: the in-memory state an operation starts from
EnsureInitialized(loadOk) ==
    IF initialized
    THEN [index |-> index, chunk_metadata |-> chunk_metadata,
          document_chunks |-> document_chunks]
    ELSE LoadIndex(loadOk)

\* reading the artifacts can only fail when there is something to read
LoadChoices == IF ~initialized /\ DiskPresent THEN BOOLEAN ELSE {TRUE}

\* _save_index: writes the index file, then the metadata file; an exception
\* at the first write leaves both files, an exception at the second leaves
\* the new index file next to the old metadata file
SaveIndex(d, idx, meta, dc, outcome) ==
    CASE outcome = "ok" ->
            [index |-> idx, has_meta |-> TRUE, chunk_metadata |-> meta,
             document_chunks |-> dc]
      [] outcome = "fail_index" -> d
      [] outcome = "fail_meta" -> [d EXCEPT !.index = idx]

SaveOutcomes == {"ok", "fail_index", "fail_meta"}

\* the uniform shape of an operation's result
Resp(op, arg, result, body, context) ==
    [op |-> op, arg |-> arg, result |-> result, body |-> body, context |-> context]

----------------------------------------------------------------------------
\* RAGService.add_document

RECURSIVE SumPending(_)
SumPending(S) ==
    IF S = {} THEN 0
    ELSE LET t == CHOOSE x \in S : TRUE
         IN  (IF tasks[t].pc = "embed" THEN tasks[t].n - Len(tasks[t].rows) ELSE 0)
             + SumPending(S \ {t})

\* rows the calls in flight will still append
PendingRows == SumPending(Tasks)

\* add_document up to its first suspension: _ensure_initialized, the
\* zero-chunk check (raises), then the await of the first batch's embeddings.
\* The call keeps its document, its number of chunks n, the batch length
\* (batch_size, or n when the whole document fits one batch) and the
\* chunk_indices recorded so far (rows); calls take the lowest free slot.
add_document_call(t, d, n, bs, loadOk) ==
    /\ tasks[t].pc = "idle"
    /\ \A u \in Tasks : u < t => tasks[u].pc # "idle"
    /\ LET s == EnsureInitialized(loadOk) IN
       /\ s.index + PendingRows + n <= MaxRows
       /\ index' = s.index
       /\ chunk_metadata' = s.chunk_metadata
       /\ document_chunks' = s.document_chunks
       /\ initialized' = TRUE
       /\ tasks' = IF n = 0 THEN tasks
                   ELSE [tasks EXCEPT ![t] =
                           [pc |-> "embed", doc |-> d, n |-> n,
                            bs |-> Min(bs, n), rows |-> <<>>]]
    /\ UNCHANGED <<disk, llm, deleted>>

\* chunk_indices after one more batch: start_idx = ntotal + len(chunk_indices)
NextRows(tk) ==
    LET b == Min(tk.bs, tk.n - Len(tk.rows))
        start_idx == index + Len(tk.rows)
    IN  tk.rows \o PyRange(start_idx, start_idx + b)

\* chunk_metadata after the metadata loop over zip(chunks, chunk_indices): of
\* a chunk's record the model keeps the document_id (the row stands for the
\* chunk_id, the document decides the length of the content)
AddMetadata(meta, d, rows) ==
    [r \in (DOMAIN meta) \cup Range(rows) |->
        IF r \in Range(rows) THEN [document_id |-> d] ELSE meta[r]]

\* is the batch whose embeddings are awaited the document's last one
LastBatch(tk) == Len(tk.rows) + tk.bs >= tk.n

\* add_document as it would be if each batch's vectors went into the index as
\* soon as they were embedded
add_document_embed_fail_keeps_batches(t) ==
    /\ tasks[t].pc = "embed"
    /\ tasks' = [tasks EXCEPT ![t] = IdleTask]
    /\ index' = index + Len(tasks[t].rows)
    /\ UNCHANGED <<chunk_metadata, document_chunks, initialized, disk, llm, deleted>>

\* _create_embeddings raised: add_document re-raises the embedding error
add_document_embed_fail(t) ==
    /\ tasks[t].pc = "embed"
    /\ tasks' = [tasks EXCEPT ![t] = IdleTask]
    /\ UNCHANGED <<index, chunk_metadata, document_chunks, initialized, disk, llm, deleted>>

\* a batch's embeddings arrived and another batch follows: record its rows
\* and await the next batch
add_document_batch(t) ==
    /\ tasks[t].pc = "embed"
    /\ ~LastBatch(tasks[t])
    /\ tasks' = [tasks EXCEPT ![t].rows = NextRows(tasks[t])]
    /\ UNCHANGED <<index, chunk_metadata, document_chunks, initialized, disk, llm, deleted>>

\* add_document as it would be if a failing save undid the call's changes
add_document_finish_rolls_back(t, outcome) ==
    /\ tasks[t].pc = "embed"
    /\ LastBatch(tasks[t])
    /\ LET tk == tasks[t]
           rows == NextRows(tk)
           meta == AddMetadata(chunk_metadata, tk.doc, rows)
           dc == DictPut(document_chunks, tk.doc, rows)
       IN  /\ index' = IF outcome = "ok" THEN index + tk.n ELSE index
           /\ chunk_metadata' = IF outcome = "ok" THEN meta ELSE chunk_metadata
           /\ document_chunks' = IF outcome = "ok" THEN dc ELSE document_chunks
           /\ disk' = SaveIndex(disk, index + tk.n, meta, dc, outcome)
           /\ deleted' = IF outcome = "ok" THEN deleted \ {tk.doc} ELSE deleted
           /\ tasks' = [tasks EXCEPT ![t] = IdleTask]
    /\ UNCHANGED <<initialized, llm>>

\* add_document as it would be if a document lost its entry when another
\* call's metadata loop overwrote one of its rows
add_document_finish_drops_overwritten(t, outcome) ==
    /\ tasks[t].pc = "embed"
    /\ LastBatch(tasks[t])
    /\ LET tk == tasks[t]
           rows == NextRows(tk)
           meta == AddMetadata(chunk_metadata, tk.doc, rows)
           hit == {x \in DOMAIN document_chunks :
                      Range(document_chunks[x]) \cap Range(rows) # {}}
           dc == DictPut(DictDrop(document_chunks, hit), tk.doc, rows)
       IN  /\ index' = index + tk.n
           /\ chunk_metadata' = meta
           /\ document_chunks' = dc
           /\ disk' = SaveIndex(disk, index + tk.n, meta, dc, outcome)
           /\ deleted' = deleted \ {tk.doc}
           /\ tasks' = [tasks EXCEPT ![t] = IdleTask]
    /\ UNCHANGED <<initialized, llm>>

\* the last batch's embeddings arrived: index.add, the metadata loop,
\* document_chunks[id] = chunk_indices, _save_index, return (or raise when
\* the save failed)
add_document_finish(t, outcome) ==
    /\ tasks[t].pc = "embed"
    /\ LastBatch(tasks[t])
    /\ LET tk == tasks[t]
           rows == NextRows(tk)
           meta == AddMetadata(chunk_metadata, tk.doc, rows)
           dc == DictPut(document_chunks, tk.doc, rows)
       IN  /\ index' = index + tk.n
           /\ chunk_metadata' = meta
           /\ document_chunks' = dc
           /\ disk' = SaveIndex(disk, index + tk.n, meta, dc, outcome)
           /\ deleted' = deleted \ {tk.doc}
           /\ tasks' = [tasks EXCEPT ![t] = IdleTask]
    /\ UNCHANGED <<initialized, llm>>

----------------------------------------------------------------------------
\* RAGService.delete_document (no _ensure_initialized; one step, it has no
\* suspension point)
DeleteResult(d, outcome) ==
    IF d \notin DOMAIN document_chunks THEN "false"
    ELSE IF outcome = "ok" THEN "true" ELSE "VectorStoreError"

\* delete_document as it would be if the metadata loop were left out
delete_document_keeps_rows(d, outcome) ==
    IF d \notin DOMAIN document_chunks
    THEN UNCHANGED ragVars
    ELSE LET dc == DictDrop(document_chunks, {d})
         IN  /\ document_chunks' = dc
             /\ disk' = SaveIndex(disk, index, chunk_metadata, dc, outcome)
             /\ deleted' = IF outcome = "ok" THEN deleted \cup {d} ELSE deleted
             /\ UNCHANGED <<index, chunk_metadata, initialized, tasks, llm>>

\* delete_document as it would be if it returned without saving
delete_document_unsaved(d, outcome) ==
    IF d \notin DOMAIN document_chunks
    THEN UNCHANGED ragVars
    ELSE LET chunk_indices == document_chunks[d]
         IN  /\ chunk_metadata' = DictDrop(chunk_metadata, Range(chunk_indices))
             /\ document_chunks' = DictDrop(document_chunks, {d})
             /\ deleted' = IF outcome = "ok" THEN deleted \cup {d} ELSE deleted
             /\ UNCHANGED <<index, initialized, disk, tasks, llm>>

delete_document(d, outcome) ==
    IF d \notin DOMAIN document_chunks
    THEN UNCHANGED ragVars
    ELSE LET chunk_indices == document_chunks[d]
             meta == DictDrop(chunk_metadata, Range(chunk_indices))
             dc == DictDrop(document_chunks, {d})
         IN  /\ chunk_metadata' = meta
             /\ document_chunks' = dc
             /\ disk' = SaveIndex(disk, index, meta, dc, outcome)
             /\ deleted' = IF outcome = "ok" THEN deleted \cup {d} ELSE deleted
             /\ UNCHANGED <<index, initialized, tasks, llm>>

----------------------------------------------------------------------------
\* RAGService.search_similar and answer_question

\* similarity scores 1 / (1 + distance), in percent
Scores == {60, 90}

\* score_threshold argument: None, 0.0, 0.5
NoThreshold == -1
Thresholds == {NoThreshold, 0, 50}

\* settings.similarity_threshold, in percent
SimilarityThreshold == 80

\* context_limit default of answer_question, in characters
ContextLimit == 4000

\* a partial excerpt is added only if more than this much space remains
PartialMinSpace == 100

\* what index.search can return for search_k: that many distinct rows of the
\* index, nearest first, each with its score
HitSeqs(ntotal, search_k) ==
    {h \in [1..search_k -> (0..(ntotal - 1)) \X Scores] :
        \A i, j \in 1..search_k :
            i < j => (h[i][1] # h[j][1] /\ h[i][2] >= h[j][2])}

\* score_threshold = score_threshold or settings.similarity_threshold
EffectiveThreshold(thr) ==
    IF thr = NoThreshold \/ thr = 0 THEN SimilarityThreshold ELSE thr

\* list.sort(key=score, reverse=True): stable, highest score first
RECURSIVE SortByScore(_)
SortByScore(s) ==
    IF Len(s) <= 1 THEN s
    ELSE LET front == SortByScore(SubSeq(s, 1, Len(s) - 1))
             x == s[Len(s)]
             ahead == SelectSeq(front, LAMBDA y : y.score >= x.score)
             behind == SelectSeq(front, LAMBDA y : y.score < x.score)
         IN  ahead \o <<x>> \o behind

\* the result loop of search_similar: drop hits below the threshold and hits
\* whose row has no chunk_metadata entry, build SearchResult, sort
SearchResults(meta, hits, thr) ==
    LET kept == SelectSeq(hits, LAMBDA h : h[2] >= thr /\ h[1] \in DOMAIN meta)
    IN  SortByScore([i \in 1..Len(kept) |->
            [document_id |-> meta[kept[i][1]].document_id,
             chunk_id |-> kept[i][1],
             score |-> kept[i][2]]])

\* search_similar on the in-memory state s (after _ensure_initialized)
SearchSimilar(s, blank, k, thr, embed, hits) ==
    IF blank \/ k <= 0 THEN [result |-> "ValidationError", body |-> <<>>]
    ELSE IF s.index = 0 THEN [result |-> "ok", body |-> <<>>]
    ELSE IF embed = "error" THEN [result |-> "EmbeddingError", body |-> <<>>]
    ELSE IF embed = "empty" THEN [result |-> "ok", body |-> <<>>]
    ELSE [result |-> "ok",
          body |-> SearchResults(s.chunk_metadata, hits, EffectiveThreshold(thr))]

\* the hit lists index.search may return to a call with these arguments
HitChoices(s, blank, k, embed) ==
    IF blank \/ k <= 0 \/ s.index = 0 \/ embed # "ok" THEN {<<>>}
    ELSE HitSeqs(s.index, Min(k, s.index))

EmbedOutcomes == {"ok", "empty", "error"}

\* len(result.content) of a retrieved chunk: the chunks of doc_a are long,
\* those of the other documents short
ContentLen(r) == IF r.document_id = "doc_a" THEN 3950 ELSE 1500

\* the context loop of answer_question: whole chunks while they fit, then at
\* most one truncated excerpt, then stop
RECURSIVE BuildContext(_, _, _, _, _)
BuildContext(results, i, total_length, used_sources, context_parts) ==
    IF i > Len(results)
    THEN [used_sources |-> used_sources, context_parts |-> context_parts]
    ELSE LET r == results[i]
             part(p) == [chunk_id |-> r.chunk_id, partial |-> p]
         IN  IF total_length + ContentLen(r) > ContextLimit
             THEN [used_sources |-> used_sources,
                   context_parts |->
                      IF ContextLimit - total_length > PartialMinSpace
                      THEN Append(context_parts, part(TRUE))
                      ELSE context_parts]
             ELSE BuildContext(results, i + 1, total_length + ContentLen(r),
                               Append(used_sources, r),
                               Append(context_parts, part(FALSE)))

\* answer_question on the in-memory state s
AnswerQuestion(s, blank, max_results, embed, hits, llmOk) ==
    LET found == SearchSimilar(s, blank, max_results, NoThreshold, embed, hits)
        ctx == BuildContext(found.body, 1, 0, <<>>, <<>>)
    IN  IF blank THEN [result |-> "ValidationError", body |-> <<>>, context |-> <<>>]
        ELSE IF found.result # "ok"
             THEN [result |-> found.result, body |-> <<>>, context |-> <<>>]
        ELSE IF ~llmOk
             THEN [result |-> "GeminiAPIError", body |-> <<>>, context |-> <<>>]
        ELSE [result |-> "ok", body |-> ctx.used_sources,
              context |-> ctx.context_parts]

\* the part of a reading operation that touches the service: _ensure_initialized
LoadOnly(s) ==
    /\ index' = s.index
    /\ chunk_metadata' = s.chunk_metadata
    /\ document_chunks' = s.document_chunks
    /\ initialized' = TRUE
    /\ UNCHANGED <<disk, tasks, llm, deleted>>

----------------------------------------------------------------------------
\* Initial values

\* a background task slot: free, or a task scheduled / awaiting add_document
IdleBg == [pc |-> "idle", id |-> "", task |-> 0, temp |-> 0]

\* settings.gemini_temperature (in tenths) and settings.gemini_max_tokens
DefaultTemperature == 7
DefaultMaxTokens == 1000

\* self.llm as __init__ builds it
DefaultLlm == [temperature |-> DefaultTemperature, max_tokens |-> DefaultMaxTokens]

InitRagVars ==
    /\ index = NoIndex
    /\ llm = DefaultLlm
    /\ chunk_metadata = EmptyDict
    /\ document_chunks = EmptyDict
    /\ initialized = FALSE
    /\ disk = NoFile
    /\ tasks = [t \in Tasks |-> IdleTask]
    /\ deleted = {}

InitDocVars ==
    /\ processing_status = EmptyDict
    /\ status_keys = <<>>
    /\ bg = [t \in Tasks |-> IdleBg]
    /\ temp_files = {}
    /\ uploads = 0

ChatSlots == 1..MaxChats

\* a chat call slot: free, or a call awaiting answer_question
\* a session dict without the key "last_updated"
NoTime == -1

IdleChat == [pc |-> "idle", session_id |-> "", session |-> 0, turn |-> 0]

InitQaVars ==
    /\ chat_sessions = EmptyDict
    /\ session_objs = EmptyDict
    /\ chats = [c \in ChatSlots |-> IdleChat]
    /\ turns = 0

\* upload_rate_limit and query_rate_limit, the two instances
Limiters == {"upload_rate_limit", "query_rate_limit"}

UploadMaxRequests == 5
UploadWindowSeconds == 300
QueryMaxRequests == 30
QueryWindowSeconds == 60

\* self.max_requests / self.window_seconds of an instance
max_requests(l) ==
    IF l = "upload_rate_limit" THEN UploadMaxRequests ELSE QueryMaxRequests

window_seconds(l) ==
    IF l = "upload_rate_limit" THEN UploadWindowSeconds ELSE QueryWindowSeconds

Threads == 1..MaxThreads

IdleCheck ==
    [pc |-> "idle", limiter |-> "", identifier |-> "", current_time |-> 0,
     recent_requests |-> <<>>]

InitRateVars ==
    /\ now = 0
    /\ request_history = [l \in Limiters |-> EmptyDict]
    /\ checks = [c \in Threads |-> IdleCheck]
    /\ admitted = [l \in Limiters |-> EmptyDict]
    /\ requests = 0

\* the generator of a streaming request: not started
IdleStream == [pc |-> "idle", max_results |-> 0, temperature |-> 0, blank |-> FALSE,
               answer_id |-> "", events |-> <<>>]

\* no process_and_answer_questions call is running; n, answers and returned
\* are those of the call that ended last
IdleBatch == [pc |-> "idle", n |-> 0, answers |-> <<>>, returned |-> <<>>]

InitApiVars ==
    /\ stream = IdleStream
    /\ batch = IdleBatch

\* no request is in the middleware stack; n counts the requests received
IdleHttp == [pc |-> "idle", n |-> 0, request_id |-> 0, kind |-> "", status |-> "",
             header |-> 0]

\* the cache of get_settings is empty
NoSettings == 0

\* no /hackrx/run request in flight: no second RAGService
NoUrlRag == [pc |-> "none", index |-> NoIndex, chunk_metadata |-> EmptyDict,
             document_chunks |-> EmptyDict]

\* the client addresses in use
Ips == {"ip1", "ip2"}

\* the process starts with the key set and nothing cached
InitAppVars ==
    /\ http = IdleHttp
    /\ url_rag = NoUrlRag
    /\ request_counts = EmptyDict
    /\ passed = [ip \in Ips |-> <<>>]
    /\ environ = "test_key_1"
    /\ settings_cache = NoSettings
    /\ built = <<>>

Init ==
    /\ InitRagVars /\ InitDocVars /\ InitQaVars /\ InitRateVars /\ InitApiVars /\ InitAppVars
    /\ resp = Resp("init", "", "ok", <<>>, <<>>)

----------------------------------------------------------------------------
\* The RAG service driven directly: any sequence and interleaving of its calls

AddCall(t, d, n, bs, loadOk) ==
    /\ add_document_call(t, d, n, bs, loadOk)
    /\ resp' = IF n = 0 THEN Resp("add", d, "VectorStoreError", <<>>, <<>>) ELSE resp
    /\ UNCHANGED <<docVars, qaVars, rateVars, apiVars, appVars>>

EmbedFail(t) ==
    /\ add_document_embed_fail(t)
    /\ resp' = Resp("add", tasks[t].doc, "EmbeddingError", <<>>, <<>>)
    /\ UNCHANGED <<docVars, qaVars, rateVars, apiVars, appVars>>

EmbedBatch(t) ==
    /\ add_document_batch(t)
    /\ UNCHANGED <<resp, docVars, qaVars, rateVars, apiVars, appVars>>

AddFinish(t, outcome) ==
    /\ add_document_finish(t, outcome)
    /\ resp' = Resp("add", tasks[t].doc,
                    IF outcome = "ok" THEN "ok" ELSE "VectorStoreError",
                    <<>>, <<>>)
    /\ UNCHANGED <<docVars, qaVars, rateVars, apiVars, appVars>>

DeleteCall(d, outcome) ==
    /\ delete_document(d, outcome)
    /\ resp' = Resp("delete", d, DeleteResult(d, outcome),
                    IF d \in DOMAIN document_chunks THEN document_chunks[d] ELSE <<>>,
                    <<>>)
    /\ UNCHANGED <<docVars, qaVars, rateVars, apiVars, appVars>>

SearchCall(blank, k, thr, embed, loadOk) ==
    LET s == EnsureInitialized(loadOk) IN
    \E hits \in HitChoices(s, blank, k, embed) :
        LET r == SearchSimilar(s, blank, k, thr, embed, hits) IN
        /\ LoadOnly(s)
        /\ resp' = Resp("search", "", r.result, r.body, <<>>)
        /\ UNCHANGED <<docVars, qaVars, rateVars, apiVars, appVars>>

AnswerCall(blank, max_results, embed, llmOk, loadOk) ==
    LET s == EnsureInitialized(loadOk) IN
    \E hits \in HitChoices(s, blank, max_results, embed) :
        LET r == AnswerQuestion(s, blank, max_results, embed, hits, llmOk) IN
        /\ LoadOnly(s)
        /\ resp' = Resp("answer", "", r.result, r.body, r.context)
        /\ UNCHANGED <<docVars, qaVars, rateVars, apiVars, appVars>>

\* a new process: a fresh RAGService over the same vector-store directory
NewInstance ==
    /\ initialized
    /\ index' = NoIndex
    /\ chunk_metadata' = EmptyDict
    /\ document_chunks' = EmptyDict
    /\ initialized' = FALSE
    /\ tasks' = [t \in Tasks |-> IdleTask]
    /\ llm' = DefaultLlm
    /\ resp' = Resp("new", "", "ok", <<>>, <<>>)
    /\ UNCHANGED <<disk, deleted, docVars, qaVars, rateVars, apiVars, appVars>>

\* The RAG service under concurrent add_document calls and deletions; the
\* save that ends a deletion may fail, the save that ends an add succeeds
NextRag ==
    \/ \E t \in Tasks, d \in DocIds, n \in 0..MaxChunks, bs \in BatchSizes,
          loadOk \in LoadChoices : AddCall(t, d, n, bs, loadOk)
    \/ \E t \in Tasks : EmbedFail(t)
    \/ \E t \in Tasks : EmbedBatch(t)
    \/ \E t \in Tasks : AddFinish(t, "ok")
    \/ \E d \in DocIds, outcome \in SaveOutcomes : DeleteCall(d, outcome)

SpecRag == Init /\ [][NextRag]_vars

\* the arguments of a query, without the combinations that differ only in
\* an argument the call never looks at
QueryArgs ==
    {a \in [blank : BOOLEAN, k : KValues, thr : Thresholds, embed : EmbedOutcomes] :
        /\ (a.blank \/ a.k = 0 \/ a.embed # "ok") => a.thr = NoThreshold
        /\ (a.blank \/ a.k = 0) => a.embed = "ok"
        /\ a.blank => a.k = 1}

\* no add_document call is between its awaits
Quiescent == \A t \in Tasks : tasks[t].pc = "idle"

\* The RAG service queried between mutating calls that run one at a time and
\* persist successfully
NextSearch ==
    \/ \E d \in DocIds, n \in 0..MaxChunks, loadOk \in LoadChoices :
            AddCall(1, d, n, DefaultBatchSize, loadOk)
    \/ EmbedFail(1)
    \/ AddFinish(1, "ok")
    \/ \E d \in DocIds : DeleteCall(d, "ok")
    \/ \E a \in QueryArgs, loadOk \in LoadChoices :
            /\ Quiescent
            /\ SearchCall(a.blank, a.k, a.thr, a.embed, loadOk)
    \/ \E a \in QueryArgs, llmOk \in BOOLEAN, loadOk \in LoadChoices :
            /\ Quiescent
            /\ a.thr = NoThreshold
            /\ a.embed = "ok" \/ llmOk
            /\ AnswerCall(a.blank, a.k, a.embed, llmOk, loadOk)

SpecSearch == Init /\ [][NextSearch]_vars

----------------------------------------------------------------------------
\* Properties of the RAG service

\* C1: in every state reachable by add_document and delete_document calls in
\* any interleaving, every row index listed in document_chunks has an entry
\* in chunk_metadata, and the vector count of the index is at least the
\* highest row index listed plus one.
C1_RowsHaveMetadata ==
    \A d \in DOMAIN document_chunks :
        \A r \in Range(document_chunks[d]) :
            /\ r \in DOMAIN chunk_metadata
            /\ index >= r + 1

\* C2: once delete_document(d) has returned true, and until d is added
\* again, no search_similar result and no answer_question source has
\* document_id d.
C2_DeletedNeverReturned ==
    (resp.op \in {"search", "answer"} /\ resp.result = "ok") =>
        \A i \in 1..Len(resp.body) : resp.body[i].document_id \notin deleted

\* a step that ends a delete_document call
DeleteStep == resp' # resp /\ resp'.op = "delete"

\* C3 (as stated): delete_document of an id in document_chunks returns true,
\* removes the id and all its rows and leaves the vector count unchanged;
\* for an id not in document_chunks it returns false and changes nothing.
C3_DeleteReturnsTrue ==
    [][DeleteStep =>
        IF resp'.arg \in DOMAIN document_chunks
        THEN /\ resp'.result = "true"
             /\ resp'.arg \notin DOMAIN document_chunks'
             /\ \A r \in Range(document_chunks[resp'.arg]) :
                    r \notin DOMAIN chunk_metadata'
             /\ index' = index
        ELSE /\ resp'.result = "false"
             /\ UNCHANGED ragVars]_vars

\* C3 (amended): delete_document of an id in document_chunks removes the id
\* from document_chunks and every row recorded for it from chunk_metadata and
\* leaves the vector count unchanged; it returns true when the save
\* succeeded (the artifacts then hold the new maps) and raises a vector-store
\* error, with the removal already made in memory, when the save failed; for
\* an id not in document_chunks it returns false and changes nothing.
C3_DeleteEffect ==
    [][DeleteStep =>
        IF resp'.arg \in DOMAIN document_chunks
        THEN /\ resp'.result \in {"true", "VectorStoreError"}
             /\ resp'.arg \notin DOMAIN document_chunks'
             /\ \A r \in Range(document_chunks[resp'.arg]) :
                    r \notin DOMAIN chunk_metadata'
             /\ \A r \in (DOMAIN chunk_metadata) \ Range(document_chunks[resp'.arg]) :
                    r \in DOMAIN chunk_metadata'
             /\ index' = index
             /\ resp'.result = "true" =>
                    /\ disk'.has_meta
                    /\ disk'.chunk_metadata = chunk_metadata'
                    /\ disk'.document_chunks = document_chunks'
             /\ resp'.result = "VectorStoreError" =>
                    /\ disk'.chunk_metadata = disk.chunk_metadata
                    /\ disk'.document_chunks = disk.document_chunks
        ELSE /\ resp'.result = "false"
             /\ UNCHANGED ragVars]_vars

\* a document of MaxChunks chunks was deleted: true returned, rows gone,
\* vectors still counted
C3_Witness ==
    /\ resp.op = "delete" /\ resp.result = "true"
    /\ Len(resp.body) = MaxChunks
    /\ resp.arg \notin DOMAIN document_chunks
    /\ \A r \in Range(resp.body) : r \notin DOMAIN chunk_metadata /\ r < index

----------------------------------------------------------------------------
\* RateLimitDependency (app/api/deps.py).  __call__ is a plain function used
\* as a dependency: the framework runs it on a worker thread, so the calls of
\* concurrent requests interleave between reading request_history and
\* storing the new list.

\* the wall-clock readings in use
Times == {0, 30, 60, 300}

\* get_current_user: None without credentials, "default_user" with them
None == "None"
Users == {None, "default_user"}

\* identifier = user or "anonymous"
Identifier(user) == IF user = None THEN "anonymous" ELSE user

\* ts > current_time - self.window_seconds
InWindow(l, ts, current_time) == ts > current_time - window_seconds(l)

\* the rebuilt request_history: the keys with a timestamp inside the window
CleanOld(hist, l, current_time) ==
    [key \in {k \in DOMAIN hist :
                \E i \in 1..Len(hist[k]) : InWindow(l, hist[k][i], current_time)}
        |-> hist[key]]

\* recent_requests: the identifier's timestamps inside the window
RecentRequests(hist, l, identifier, current_time) ==
    LET user_requests == IF identifier \in DOMAIN hist THEN hist[identifier]
                         ELSE <<>> IN
    SelectSeq(user_requests, LAMBDA ts : InWindow(l, ts, current_time))

\* dict.get(key, []) followed by an append
DictAppend(f, k, v) == DictPut(f, k, Append(IF k \in DOMAIN f THEN f[k] ELSE <<>>, v))

\* __call__ up to the limit check: clean, filter, reject with 429 or go on
rate_limit_check(c, l, user) ==
    LET identifier == Identifier(user)
        cleaned == CleanOld(request_history[l], l, now)
        recent == RecentRequests(cleaned, l, identifier, now)
    IN
    /\ checks[c].pc = "idle"
    /\ \A u \in Threads : u < c => checks[u].pc # "idle"
    /\ requests < MaxCalls
    /\ requests' = requests + 1
    /\ request_history' = [request_history EXCEPT ![l] = cleaned]
    /\ IF Len(recent) >= max_requests(l)
       THEN /\ resp' = Resp(l, identifier, "429", <<window_seconds(l)>>, <<>>)
            /\ UNCHANGED <<checks, admitted>>
       ELSE /\ checks' = [checks EXCEPT ![c] =
                    [pc |-> "record", limiter |-> l, identifier |-> identifier,
                     current_time |-> now, recent_requests |-> recent]]
            /\ UNCHANGED <<admitted, resp>>
    /\ UNCHANGED <<now, ragVars, docVars, qaVars, apiVars, appVars>>

\* __call__ after the limit check: append the timestamp and store the list
rate_limit_record(c) ==
    LET k == checks[c] IN
    /\ k.pc = "record"
    /\ request_history' = [request_history EXCEPT ![k.limiter] =
            DictPut(@, k.identifier, Append(k.recent_requests, k.current_time))]
    /\ admitted' = [admitted EXCEPT ![k.limiter] =
            DictAppend(@, k.identifier, k.current_time)]
    /\ checks' = [checks EXCEPT ![c] = IdleCheck]
    /\ resp' = Resp(k.limiter, k.identifier, "admitted", <<>>, <<>>)
    /\ UNCHANGED <<now, requests, ragVars, docVars, qaVars, apiVars, appVars>>

\* time passes
Tick ==
    /\ \E t \in Times : t > now /\ now' = t
    /\ UNCHANGED <<request_history, checks, admitted, requests, resp,
                   ragVars, docVars, qaVars, apiVars, appVars>>

\* request_history after n requests of the default user admitted at time 0
Warm(n) ==
    IF n = 0 THEN EmptyDict
    ELSE [id \in {"default_user"} |-> [i \in 1..n |-> 0]]

\* The limiters start empty or two requests below their limit
InitRate ==
    /\ InitRagVars /\ InitDocVars /\ InitQaVars /\ InitApiVars /\ InitAppVars
    /\ now = 0
    /\ \E w \in [Limiters -> BOOLEAN] :
        /\ request_history =
              [l \in Limiters |-> Warm(IF w[l] THEN max_requests(l) - 2 ELSE 0)]
        /\ admitted =
              [l \in Limiters |-> Warm(IF w[l] THEN max_requests(l) - 2 ELSE 0)]
    /\ checks = [c \in Threads |-> IdleCheck]
    /\ requests = 0
    /\ resp = Resp("init", "", "ok", <<>>, <<>>)

NextRate ==
    \/ \E c \in Threads, l \in Limiters, user \in Users : rate_limit_check(c, l, user)
    \/ \E c \in Threads : rate_limit_record(c)
    \/ Tick

SpecRate == InitRate /\ [][NextRate]_vars

\* C4: no identity ever has more than N requests admitted by a limiter
\* inside a window of W seconds (upload N=5, W=300; query N=30, W=60): of the
\* admitted timestamps of an identity, at most N lie in the W seconds that
\* end with any one of them.
C4_AtMostNPerWindow ==
    \A l \in Limiters : \A id \in DOMAIN admitted[l] :
        LET a == admitted[l][id] IN
        \A i \in 1..Len(a) :
            Cardinality({j \in 1..Len(a) :
                            a[j] <= a[i] /\ a[j] > a[i] - window_seconds(l)})
                <= max_requests(l)

----------------------------------------------------------------------------
\* The document API (app/api/endpoints/documents.py): upload, the background
\* ingestion task and delete, over the module-level processing_status map

\* chunk_count of a record that has none
NoCount == -1

\* the record upload_document stores (progress in percent)
NewRecord ==
    [status |-> "processing", progress |-> 0, steps_completed |-> 0,
     total_steps |-> 3, chunk_count |-> NoCount, error_message |-> "",
     failed_at |-> FALSE, completed_at |-> FALSE]

\* the dict.update calls of process_document_background
Step1(rec) == [rec EXCEPT !.status = "processing", !.progress = 10,
                          !.steps_completed = 0]

Step2(rec) == [rec EXCEPT !.progress = 50, !.steps_completed = 1]

Step3(rec, n) == [rec EXCEPT !.status = "completed", !.progress = 100,
                             !.steps_completed = 3, !.completed_at = TRUE,
                             !.chunk_count = n]

StepFailed(rec, e) == [rec EXCEPT !.status = "failed", !.error_message = e,
                                  !.failed_at = TRUE]

\* the keys of the status map after a step that leaves it with the key set
\* keys: a dict keeps its keys in the order of their insertion, assigning to
\* a key it holds keeps the key's place, a deleted key leaves the order, a
\* new key goes to the end (a step inserts at most one key)
KeysAfter(keys) ==
    LET kept == SelectSeq(status_keys, LAMBDA k : k \in keys)
        new == keys \ Range(status_keys)
    IN  IF new = {} THEN kept ELSE Append(kept, CHOOSE k \in new : TRUE)

\* upload_document of a request that is accepted: save_upload_file writes the
\* temporary file, the record is set and the background task scheduled; the
\* id is a function of the second and of hash(filename), so two uploads may
\* get the same one
upload_document(t, id) ==
    /\ bg[t].pc = "idle"
    /\ \A u \in Tasks : u < t => bg[u].pc # "idle"
    /\ uploads < MaxUploads
    /\ uploads' = uploads + 1
    /\ processing_status' = DictPut(processing_status, id, NewRecord)
    /\ status_keys' = KeysAfter(DOMAIN processing_status')
    /\ temp_files' = temp_files \cup {uploads + 1}
    /\ bg' = [bg EXCEPT ![t] = [pc |-> "scheduled", id |-> id, task |-> 0,
                                temp |-> uploads + 1]]
    /\ resp' = Resp("upload", id, "201", <<>>, <<>>)
    /\ UNCHANGED <<ragVars, qaVars, rateVars, apiVars, appVars>>

\* the end of a background task: the except clause updates the record when
\* e is an exception, and the lookup of a missing record raises KeyError out
\* of the task; the finally clause removes the temporary file
TaskEnds(t, rec, e) ==
    /\ bg' = [bg EXCEPT ![t] = IdleBg]
    /\ temp_files' = temp_files \ {bg[t].temp}
    /\ UNCHANGED <<uploads, status_keys>>
    /\ IF bg[t].id \in DOMAIN processing_status
       THEN /\ processing_status' = DictPut(processing_status, bg[t].id,
                    IF e = "" THEN rec ELSE StepFailed(rec, e))
            /\ resp' = Resp("background", bg[t].id,
                            IF e = "" THEN "completed" ELSE "failed",
                            IF e = "" THEN <<>> ELSE <<e>>, <<>>)
       ELSE /\ UNCHANGED processing_status
            /\ resp' = Resp("background", bg[t].id, "KeyError",
                            IF e = "" THEN <<>> ELSE <<e>>, <<>>)

\* process_document_background up to the await inside add_document:
\* step 1, process_file (n chunks, or an exception), step 2, the start of
\* add_document
process_document_background(t, n, procOk, loadOk) ==
    LET id == bg[t].id
        rec == IF id \in DOMAIN processing_status THEN processing_status[id]
               ELSE NewRecord
    IN
    /\ bg[t].pc = "scheduled"
    /\ IF id \notin DOMAIN processing_status
       THEN TaskEnds(t, rec, "") /\ UNCHANGED ragVars
       ELSE IF ~procOk
       THEN TaskEnds(t, Step1(rec), "DocumentProcessingError") /\ UNCHANGED ragVars
       ELSE \E r \in Tasks :
            /\ add_document_call(r, id, n, DefaultBatchSize, loadOk)
            /\ IF n = 0
               THEN TaskEnds(t, Step2(Step1(rec)), "VectorStoreError")
               ELSE /\ processing_status' =
                          DictPut(processing_status, id, Step2(Step1(rec)))
                    /\ bg' = [bg EXCEPT ![t] = [pc |-> "adding", id |-> id, task |-> r,
                                                temp |-> bg[t].temp]]
                    /\ UNCHANGED <<uploads, status_keys, temp_files, resp>>
    /\ UNCHANGED <<qaVars, rateVars, apiVars, appVars>>

\* the record a task finds when it resumes
CurrentRecord(t) ==
    IF bg[t].id \in DOMAIN processing_status THEN processing_status[bg[t].id]
    ELSE NewRecord

\* the embedding call of add_document failed
background_embed_fail(t) ==
    /\ bg[t].pc = "adding"
    /\ add_document_embed_fail(bg[t].task)
    /\ TaskEnds(t, CurrentRecord(t), "EmbeddingError")
    /\ UNCHANGED <<qaVars, rateVars, apiVars, appVars>>

\* add_document returned or failed in its save: step 3 or the except clause
background_finish(t, outcome) ==
    /\ bg[t].pc = "adding"
    /\ add_document_finish(bg[t].task, outcome)
    /\ IF outcome = "ok"
       THEN TaskEnds(t, Step3(CurrentRecord(t), tasks[bg[t].task].n), "")
       ELSE TaskEnds(t, CurrentRecord(t), "VectorStoreError")
    /\ UNCHANGED <<qaVars, rateVars, apiVars, appVars>>

\* status_info.get("chunk_count", 0)
RecordedCount(rec) == IF rec.chunk_count = NoCount THEN 0 ELSE rec.chunk_count

\* the DELETE endpoint as it would be if it dropped the record whatever the
\* RAG service answered
documents_delete_drops_record(id, outcome) ==
    /\ delete_document(id, outcome)
    /\ processing_status' = DictDrop(processing_status, {id})
    /\ resp' = Resp("doc_delete", id, "200", <<>>,
                    IF id \in DOMAIN processing_status
                    THEN <<RecordedCount(processing_status[id])>> ELSE <<0>>)
    /\ status_keys' = KeysAfter(DOMAIN processing_status')
    /\ UNCHANGED <<bg, uploads, temp_files, qaVars, rateVars, apiVars, appVars>>

\* DELETE /documents/{id}: one step, delete_document has no suspension point
documents_delete_document(id, outcome) ==
    /\ IF id \notin DOMAIN processing_status
       THEN /\ resp' = Resp("doc_delete", id, "404", <<>>, <<>>)
            /\ UNCHANGED <<processing_status, ragVars>>
       ELSE /\ delete_document(id, outcome)
            /\ LET was_deleted == DeleteResult(id, outcome) IN
               IF was_deleted = "false"
               THEN /\ resp' = Resp("doc_delete", id, "404", <<>>, <<>>)
                    /\ UNCHANGED processing_status
               ELSE IF was_deleted = "VectorStoreError"
               THEN /\ resp' = Resp("doc_delete", id, "500", <<>>, <<>>)
                    /\ UNCHANGED processing_status
               ELSE /\ processing_status' = DictDrop(processing_status, {id})
                    /\ resp' = Resp("doc_delete", id, "200", <<>>,
                                    <<RecordedCount(processing_status[id])>>)
    /\ status_keys' = KeysAfter(DOMAIN processing_status')
    /\ UNCHANGED <<bg, uploads, temp_files, qaVars, rateVars, apiVars, appVars>>

\* The document API: uploads whose background tasks interleave, and deletes
NextDocs ==
    \/ \E t \in Tasks, id \in DocIds : upload_document(t, id)
    \/ \E t \in Tasks, n \in 0..MaxChunks, procOk \in BOOLEAN,
          loadOk \in LoadChoices : process_document_background(t, n, procOk, loadOk)
    \/ \E t \in Tasks : background_embed_fail(t)
    \/ \E t \in Tasks, outcome \in SaveOutcomes : background_finish(t, outcome)
    \/ \E id \in DocIds, outcome \in SaveOutcomes :
            documents_delete_document(id, outcome)

SpecDocs == Init /\ [][NextDocs]_vars

----------------------------------------------------------------------------
\* Properties of the document API

\* a step in which upload_document accepts an upload into slot t
UploadStep(t) == bg[t].pc = "idle" /\ bg'[t].pc = "scheduled"

\* a step that ends the background task of slot t
TaskEndStep(t) == bg[t].pc # "idle" /\ bg'[t].pc = "idle"

\* C5: every accepted upload creates a status record with status
\* processing, and when the upload's background task has run to its end the
\* record of its document is completed (with a chunk_count of at least 1) or
\* failed.
C5_RecordReachesEnd ==
    [][\A t \in Tasks :
        /\ UploadStep(t) =>
            /\ bg'[t].id \in DOMAIN processing_status'
            /\ processing_status'[bg'[t].id].status = "processing"
        /\ TaskEndStep(t) =>
            /\ bg[t].id \in DOMAIN processing_status'
            /\ processing_status'[bg[t].id].status \in {"completed", "failed"}
            /\ processing_status'[bg[t].id].status = "completed" =>
                    processing_status'[bg[t].id].chunk_count >= 1]_vars

\* C6: when process_file or add_document raised an exception in a background
\* task, the task ends with the record of its document set to failed, with
\* the exception's message as error_message and a failed_at timestamp, and
\* no exception leaves the task.
C6_FailureIsRecorded ==
    [][\A t \in Tasks :
        (TaskEndStep(t) /\ resp'.body # <<>>) =>
            /\ resp'.result = "failed"
            /\ bg[t].id \in DOMAIN processing_status'
            /\ processing_status'[bg[t].id].status = "failed"
            /\ processing_status'[bg[t].id].error_message = resp'.body[1]
            /\ processing_status'[bg[t].id].failed_at]_vars

\* C7: the status of a record only moves from processing to completed or to
\* failed (the creation of a record by an upload is not counted as a move),
\* and a record leaves the status map only by a DELETE of its id answered 200.
C7_StatusMovesForward ==
    [][\A id \in DOMAIN processing_status :
        IF id \in DOMAIN processing_status'
        THEN (/\ processing_status'[id].status # processing_status[id].status
              /\ \A t \in Tasks : ~UploadStep(t))
                => /\ processing_status[id].status = "processing"
                   /\ processing_status'[id].status \in {"completed", "failed"}
        ELSE resp'.op = "doc_delete" /\ resp'.arg = id /\ resp'.result = "200"]_vars

\* a step that ends a DELETE /documents/{id} request
DocDeleteStep == resp' # resp /\ resp'.op = "doc_delete"

----------------------------------------------------------------------------
\* The Q&A API (app/api/endpoints/qa.py): chat sessions, their history and
\* their deletion, over the module-level chat_sessions map.  A chat call
\* keeps a reference to the session dict across its await, so the dicts are
\* objects of their own.

SessionIds == {"s1", "s2"}

\* limit and offset query parameters in use (neither is validated): the
\* default page, a page inside the list, a page past its end, and negative
\* values
HistoryArgs ==
    {[limit |-> 50, offset |-> 0], [limit |-> 2, offset |-> 1],
     [limit |-> 2, offset |-> 3], [limit |-> 1, offset |-> -1],
     [limit |-> -1, offset |-> 0]}

\* the session dict stored under a session id
Session(sid) == session_objs[chat_sessions[sid]]

\* the session dicts still referenced by the map or by a chat call in flight
Referenced(sessions, calls) ==
    {sessions[sid] : sid \in DOMAIN sessions}
        \cup {calls[c].session : c \in {x \in ChatSlots : calls[x].pc # "idle"}}

\* the session dicts without the unreferenced ones
Collect(objs, sessions, calls) ==
    [o \in (DOMAIN objs) \cap Referenced(sessions, calls) |-> objs[o]]

\* a reference not in use
NewRef == CHOOSE o \in 1..(MaxTurns + MaxChats + 1) : o \notin DOMAIN session_objs

\* sequence slicing s[a:b] of Python
PyClamp(i, len) ==
    IF i < 0 THEN (IF i + len < 0 THEN 0 ELSE i + len)
    ELSE (IF i > len THEN len ELSE i)

PySlice(s, a, b) ==
    LET lo == PyClamp(a, Len(s))
        hi == PyClamp(b, Len(s))
    IN  IF lo < hi THEN SubSeq(s, lo + 1, hi) ELSE <<>>

\* chat up to the await of answer_question: get or create the session,
\* append the user message, start answer_question (_ensure_initialized)
chat(c, session_id, current_user, loadOk) ==
    LET isNew == session_id \notin DOMAIN chat_sessions
        ref == IF isNew THEN NewRef ELSE chat_sessions[session_id]
        session == IF isNew
                   THEN [messages |-> <<>>, user |-> current_user,
                         created_at |-> now, last_updated |-> NoTime]
                   ELSE session_objs[ref]
        user_message == [role |-> "user", turn |-> turns + 1]
    IN
    /\ chats[c].pc = "idle"
    /\ \A u \in ChatSlots : u < c => chats[u].pc # "idle"
    /\ turns < MaxTurns
    /\ turns' = turns + 1
    /\ chat_sessions' = DictPut(chat_sessions, session_id, ref)
    /\ session_objs' = DictPut(session_objs, ref,
            [session EXCEPT !.messages = Append(@, user_message)])
    /\ chats' = [chats EXCEPT ![c] =
            [pc |-> "answer", session_id |-> session_id, session |-> ref,
             turn |-> turns + 1]]
    /\ LoadOnly(EnsureInitialized(loadOk))
    /\ UNCHANGED <<resp, docVars, rateVars, apiVars, appVars>>

\* chat after the await: the answer arrived (append the assistant message,
\* set last_updated, answer 200) or answer_question raised (answer 500)
chat_answered(c, answered) ==
    LET k == chats[c]
        session == session_objs[k.session]
        assistant_message == [role |-> "assistant", turn |-> k.turn]
        objs == IF answered
                THEN DictPut(session_objs, k.session,
                        [session EXCEPT !.messages = Append(@, assistant_message),
                                        !.last_updated = now])
                ELSE session_objs
        calls == [chats EXCEPT ![c] = IdleChat]
    IN
    /\ k.pc = "answer"
    /\ chats' = calls
    /\ session_objs' = Collect(objs, chat_sessions, calls)
    /\ resp' = IF answered
               THEN Resp("chat", k.session_id, "200", <<>>,
                         <<Len(objs[k.session].messages)>>)
               ELSE Resp("chat", k.session_id, "500", <<>>, <<>>)
    /\ UNCHANGED <<chat_sessions, turns, ragVars, docVars, rateVars, apiVars, appVars>>

\* current_user and session.get("user") != current_user
AccessDenied(sid, current_user) ==
    current_user # None /\ Session(sid).user # current_user

\* GET /qa/history/{session_id} as it would be if the page started at the
\* first message whatever the offset
get_conversation_history_from_start(session_id, limit, offset, current_user) ==
    /\ resp' =
        IF session_id \notin DOMAIN chat_sessions
        THEN Resp("history", session_id, "404", <<>>, <<>>)
        ELSE IF AccessDenied(session_id, current_user)
        THEN Resp("history", session_id, "403", <<>>, <<>>)
        ELSE Resp("history", session_id, "200",
                  PySlice(Session(session_id).messages, 0, limit),
                  <<Len(Session(session_id).messages)>>)
    /\ UNCHANGED <<ragVars, docVars, qaVars, rateVars, apiVars, appVars>>

\* GET /qa/history/{session_id} as it would be without the access check
get_conversation_history_unchecked(session_id, limit, offset, current_user) ==
    /\ resp' =
        IF session_id \notin DOMAIN chat_sessions
        THEN Resp("history", session_id, "404", <<>>, <<>>)
        ELSE Resp("history", session_id, "200",
                  PySlice(Session(session_id).messages, offset, offset + limit),
                  <<Len(Session(session_id).messages)>>)
    /\ UNCHANGED <<ragVars, docVars, qaVars, rateVars, apiVars, appVars>>

\* GET /qa/history/{session_id}
get_conversation_history(session_id, limit, offset, current_user) ==
    /\ resp' =
        IF session_id \notin DOMAIN chat_sessions
        THEN Resp("history", session_id, "404", <<>>, <<>>)
        ELSE IF AccessDenied(session_id, current_user)
        THEN Resp("history", session_id, "403", <<>>, <<>>)
        ELSE Resp("history", session_id, "200",
                  PySlice(Session(session_id).messages, offset, offset + limit),
                  <<Len(Session(session_id).messages)>>)
    /\ UNCHANGED <<ragVars, docVars, qaVars, rateVars, apiVars, appVars>>

\* DELETE /qa/sessions/{session_id}
delete_chat_session(session_id, current_user) ==
    /\ IF session_id \notin DOMAIN chat_sessions
       THEN /\ resp' = Resp("session_delete", session_id, "404", <<>>, <<>>)
            /\ UNCHANGED <<chat_sessions, session_objs>>
       ELSE IF AccessDenied(session_id, current_user)
       THEN /\ resp' = Resp("session_delete", session_id, "403", <<>>, <<>>)
            /\ UNCHANGED <<chat_sessions, session_objs>>
       ELSE /\ resp' = Resp("session_delete", session_id, "200", <<>>,
                            <<Len(Session(session_id).messages)>>)
            /\ chat_sessions' = DictDrop(chat_sessions, {session_id})
            /\ session_objs' = Collect(session_objs,
                                       DictDrop(chat_sessions, {session_id}), chats)
    /\ UNCHANGED <<chats, turns, ragVars, docVars, rateVars, apiVars, appVars>>

\* The Q&A API: chat calls that interleave, history reads and deletions by
\* callers with and without a resolved identity
NextQA ==
    \/ \E c \in ChatSlots, sid \in SessionIds, user \in Users,
          loadOk \in LoadChoices : chat(c, sid, user, loadOk)
    \/ \E c \in ChatSlots, answered \in BOOLEAN : chat_answered(c, answered)
    \/ \E sid \in SessionIds, a \in HistoryArgs, user \in Users :
            get_conversation_history(sid, a.limit, a.offset, user)
    \/ \E sid \in SessionIds, user \in Users : delete_chat_session(sid, user)

SpecQA == Init /\ [][NextQA]_vars

----------------------------------------------------------------------------
\* Properties of the Q&A API

\* a step that answers a history read or a deletion of session sid by user
SessionRequest(sid, user) ==
    \/ \E a \in HistoryArgs :
            get_conversation_history(sid, a.limit, a.offset, user)
    \/ delete_chat_session(sid, user)

SliceBound(i, len) ==
    IF i >= len THEN len
    ELSE IF i >= 0 THEN i
    ELSE IF i >= 0 - len THEN len + i
    ELSE 0

\* page is s[a:b]: the elements of s from bound a up to bound b
IsSlice(page, s, a, b) ==
    LET lo == SliceBound(a, Len(s))
        hi == SliceBound(b, Len(s))
    IN  /\ Len(page) = Cardinality({i \in 0..(Len(s) - 1) : lo <= i /\ i < hi})
        /\ \A j \in 1..Len(page) : page[j] = s[lo + j]

\* C10: a history read answers 404 for a session id not in chat_sessions,
\* 403 when the caller's resolved identity is present and differs from the
\* session's recorded owner, and otherwise 200 with
\* messages[offset:offset+limit] and total_messages equal to the number of
\* messages of the session.
C10_HistoryPage ==
    [][\A sid \in SessionIds, a \in HistoryArgs, user \in Users :
        get_conversation_history(sid, a.limit, a.offset, user) =>
            IF sid \notin DOMAIN chat_sessions
            THEN resp'.result = "404" /\ resp'.body = <<>>
            ELSE IF user # None /\ Session(sid).user # user
            THEN resp'.result = "403" /\ resp'.body = <<>>
            ELSE /\ resp'.result = "200"
                 /\ IsSlice(resp'.body, Session(sid).messages,
                            a.offset, a.offset + a.limit)
                 /\ resp'.context = <<Len(Session(sid).messages)>>]_vars

\* a history read returned a page that starts after the first message and
\* ends before the last
C10_Witness ==
    /\ resp.op = "history" /\ resp.result = "200"
    /\ Len(resp.body) >= 1
    /\ Len(resp.body) + 2 <= resp.context[1]
    /\ resp.body[1].role = "assistant"

\* a step in which the chat call of slot c returns its answer
ChatReturns(c) ==
    chats[c].pc = "answer" /\ chats'[c].pc = "idle" /\ resp'.result = "200"

\* the number of messages the session of call c held before the call: the
\* messages in front of the call's user message
CountBefore(c) ==
    LET messages == session_objs[chats[c].session].messages
    IN  (CHOOSE i \in 1..Len(messages) :
            messages[i] = [role |-> "user", turn |-> chats[c].turn]) - 1

\* C11: every chat call that succeeds has appended one user message and then
\* one assistant message to its session and returns conversation_length
\* equal to the session's message count before the call plus 2, also while
\* other chat calls on the same session are in flight.
C11_ChatAddsTwo ==
    [][\A c \in ChatSlots :
        ChatReturns(c) =>
            LET before == session_objs[chats[c].session].messages
                after == Append(before, [role |-> "assistant", turn |-> chats[c].turn])
            IN  /\ resp'.context = <<CountBefore(c) + 2>>
                /\ chats[c].session_id \in DOMAIN chat_sessions'
                /\ session_objs'[chat_sessions'[chats[c].session_id]].messages = after]_vars

----------------------------------------------------------------------------
\* answer_question with per-call temperature / max_tokens arguments

\* the argument was not passed (None)
NoOverride == -1

\* temperature (in tenths) and max_tokens arguments in use
Temperatures == {NoOverride, 0}
MaxTokenChoices == {NoOverride, 50}

\* self.llm after `if temperature is not None: self.llm.temperature = ...`
\* and the same for max_tokens
ApplyOverrides(l, temperature, max_tokens) ==
    [temperature |-> IF temperature # NoOverride THEN temperature ELSE l.temperature,
     max_tokens |-> IF max_tokens # NoOverride THEN max_tokens ELSE l.max_tokens]

\* answer_question(question, max_results, temperature, max_tokens): the
\* arguments are stored into self.llm once the context is built, before the
\* chat model is invoked
AnswerWith(max_results, temperature, max_tokens, llmOk, loadOk) ==
    LET s == EnsureInitialized(loadOk) IN
    \E hits \in HitChoices(s, FALSE, max_results, "ok") :
        LET r == AnswerQuestion(s, FALSE, max_results, "ok", hits, llmOk) IN
        /\ index' = s.index
        /\ chunk_metadata' = s.chunk_metadata
        /\ document_chunks' = s.document_chunks
        /\ initialized' = TRUE
        /\ llm' = ApplyOverrides(llm, temperature, max_tokens)
        /\ resp' = Resp("answer", "override", r.result, r.body, r.context)
        /\ UNCHANGED <<disk, tasks, deleted, docVars, qaVars, rateVars, apiVars, appVars>>

\* The RAG service answering questions with and without overrides, between
\* adds that run one at a time
NextLlm ==
    \/ \E d \in DocIds, n \in 0..MaxChunks, loadOk \in LoadChoices :
            AddCall(1, d, n, DefaultBatchSize, loadOk)
    \/ AddFinish(1, "ok")
    \/ \E k \in KValues, llmOk \in BOOLEAN, loadOk \in LoadChoices :
            Quiescent /\ AnswerCall(FALSE, k, "ok", llmOk, loadOk)
    \/ \E k \in KValues, t \in Temperatures, m \in MaxTokenChoices,
          llmOk \in BOOLEAN, loadOk \in LoadChoices :
            /\ Quiescent
            /\ t # NoOverride \/ m # NoOverride
            /\ AnswerWith(k, t, m, llmOk, loadOk)

SpecLlm == Init /\ [][NextLlm]_vars

\* a step in which answer_question, called without temperature and without
\* max_tokens, invoked the chat model
PlainAnswerStep ==
    /\ resp' # resp
    /\ resp'.op = "answer" /\ resp'.arg = ""
    /\ resp'.result \in {"ok", "GeminiAPIError"}

\* C12: an answer_question call that passes no temperature and no max_tokens
\* invokes the chat model with the configured defaults, whatever overrides
\* earlier calls on the same service passed.
C12_OverrideIsPerCall ==
    [][PlainAnswerStep => llm = DefaultLlm /\ llm' = DefaultLlm]_vars


\* the chunk ids of a sequence of search results or context parts
ChunkIds(seq) == {seq[i].chunk_id : i \in 1..Len(seq)}

\* C13: the sources of a successful answer are exactly the chunks whose text
\* was put into the context, in full or as a truncated excerpt.
C13_SourcesAreContextChunks ==
    (resp.op = "answer" /\ resp.result = "ok") =>
        ChunkIds(resp.body) = ChunkIds(resp.context)

----------------------------------------------------------------------------
\* Persistence: the service over restarts, failing saves and failing loads

\* get_stats (no _ensure_initialized): total_documents, total_chunks,
\* vector_store_size
get_stats ==
    <<Cardinality(DOMAIN document_chunks), Cardinality(DOMAIN chunk_metadata),
      IF index = NoIndex THEN 0 ELSE index>>

GetStats ==
    /\ resp' = Resp("stats", "", "ok", get_stats, <<>>)
    /\ UNCHANGED <<ragVars, docVars, qaVars, rateVars, apiVars, appVars>>

\* One service instance at a time over one vector-store directory: adds of
\* one document (again and again) that run one at a time, deletions, statistics, restarts of the process between
\* calls, and a search or a question as the first operation after a restart
NextPersist ==
    \/ \E n \in 0..MaxChunks, bs \in BatchSizes, loadOk \in LoadChoices :
            AddCall(1, "doc_a", n, bs, loadOk)
    \/ EmbedFail(1)
    \/ EmbedBatch(1)
    \/ \E outcome \in SaveOutcomes : AddFinish(1, outcome)
    \/ \E d \in DocIds, outcome \in SaveOutcomes : DeleteCall(d, outcome)
    \/ \E loadOk \in LoadChoices :
            ~initialized /\ SearchCall(FALSE, 1, NoThreshold, "ok", loadOk)
    \/ \E loadOk \in LoadChoices :
            ~initialized /\ AnswerCall(FALSE, 1, "ok", TRUE, loadOk)
    \/ GetStats
    \/ Quiescent /\ NewInstance

SpecPersist == Init /\ [][NextPersist]_vars

\* what the service holds in memory
Memory == [index |-> index, chunk_metadata |-> chunk_metadata,
           document_chunks |-> document_chunks]

\* add_document called with a document without chunks
ZeroChunkStep == \E t \in Tasks, d \in DocIds, bs \in BatchSizes, loadOk \in LoadChoices :
                    AddCall(t, d, 0, bs, loadOk)

\* add_document ended by a failing embedding batch
EmbedFailStep == \E t \in Tasks : EmbedFail(t)

OnDisk == [index |-> disk.index, chunk_metadata |-> disk.chunk_metadata,
           document_chunks |-> disk.document_chunks]

\* add_document whose _save_index raised, after index.add and the metadata loop
SaveFailStep == \E t \in Tasks, outcome \in SaveOutcomes \ {"ok"} : AddFinish(t, outcome)

\* add_document or delete_document that saved and returned
SavedStep ==
    \/ \E t \in Tasks : AddFinish(t, "ok")
    \/ \E d \in DOMAIN document_chunks : DeleteCall(d, "ok")

C16_SavedStateLoadsBack ==
    [][SavedStep => (DiskPresent' /\ LoadIndex(TRUE)' = Memory')]_vars

\* delete_document returned true on a service whose index holds vectors
C16_Witness ==
    /\ resp.op = "delete" /\ resp.result = "true"
    /\ index > 0
    /\ DiskPresent /\ LoadIndex(TRUE) = Memory


\* the statistics of the persisted index and maps
PersistedStats ==
    <<Cardinality(DOMAIN disk.document_chunks), Cardinality(DOMAIN disk.chunk_metadata),
      disk.index>>

\* C17: the first operation on a fresh service whose directory holds both
\* artifacts acts on the persisted index and maps (the artifacts being
\* readable): add_document, search_similar and answer_question leave them
\* loaded, delete_document of a persisted document returns true and get_stats
\* reports the persisted sizes.
C17_FirstOperationLoads ==
    [][(~initialized /\ DiskPresent) =>
        /\ (\E t \in Tasks, d \in DocIds, n \in 0..MaxChunks, bs \in BatchSizes :
                AddCall(t, d, n, bs, TRUE)) => Memory' = OnDisk
        /\ SearchCall(FALSE, 1, NoThreshold, "ok", TRUE) => Memory' = OnDisk
        /\ AnswerCall(FALSE, 1, "ok", TRUE, TRUE) => Memory' = OnDisk
        /\ \A d \in DOMAIN disk.document_chunks :
                DeleteCall(d, "ok") => resp'.result = "true"
        /\ GetStats => resp'.body = PersistedStats]_vars

----------------------------------------------------------------------------
\* DocumentProcessor.create_chunks

\* settings.chunk_size and settings.chunk_overlap
DefaultChunkSize == 1000
DefaultChunkOverlap == 200

\* an argument left at its default None
NotSupplied == -9999

\* chunk_size and overlap arguments in use
ChunkSizeArgs == {NotSupplied, -5, 0, 100, 1000}
OverlapArgs == {NotSupplied, -1, 0, 20, 100, 300}

\* the texts in use, by their length after strip(): blank text, and texts of
\* one run of characters without whitespace
TextLengths == {0, 9, 150, 2500}

\* `x or default`: the default replaces None and every other falsy value
OrDefault(x, default) == IF x = NotSupplied \/ x = 0 THEN default ELSE x

\* RecursiveCharacterTextSplitter.split_text on a text without whitespace: only
\* the separator "" applies, so the text is cut into chunks of chunk_size
\* characters, each starting chunk_overlap characters before the end of the
\* one before; the chunks are given by their lengths
RECURSIVE split_text(_, _, _)
split_text(len, chunk_size, chunk_overlap) ==
    IF len <= chunk_size THEN <<len>>
    ELSE <<chunk_size>> \o split_text(len - (chunk_size - chunk_overlap),
                                      chunk_size, chunk_overlap)

create_chunks(len, chunk_size_arg, overlap_arg) ==
    LET chunk_size == OrDefault(chunk_size_arg, DefaultChunkSize)
        overlap == OrDefault(overlap_arg, DefaultChunkOverlap)
        raise(msg) == [result |-> "ValidationError", message |-> msg, chunks |-> <<>>]
    IN  IF chunk_size <= 0 THEN raise("Chunk size must be positive")
        ELSE IF overlap < 0 THEN raise("Overlap must be non-negative")
        ELSE IF overlap >= chunk_size THEN raise("Overlap must be less than chunk size")
        ELSE [result |-> "ok", message |-> "",
              chunks |-> IF len = 0 THEN <<>> ELSE split_text(len, chunk_size, overlap)]

\* one call; the response keeps the arguments next to the outcome
CreateChunks(len, chunk_size, overlap) ==
    LET r == create_chunks(len, chunk_size, overlap) IN
    /\ resp' = Resp("create_chunks", r.message, r.result, r.chunks,
                    <<len, chunk_size, overlap>>)
    /\ UNCHANGED <<ragVars, docVars, qaVars, rateVars, apiVars, appVars>>

NextChunks ==
    \E len \in TextLengths, chunk_size \in ChunkSizeArgs, overlap \in OverlapArgs :
        CreateChunks(len, chunk_size, overlap)

SpecChunks == Init /\ [][NextChunks]_vars

\* the parameters a call asks for: the argument, or the configured default
\* when the argument was not supplied
Requested(x, default) == IF x = NotSupplied THEN default ELSE x

\* C18: create_chunks raises a validation error whenever the chunk_size asked
\* for is <= 0 (with "Chunk size must be positive"), whenever the overlap is
\* < 0 and whenever overlap >= chunk_size; with valid parameters and blank
\* text it returns the empty list.
C18_InvalidParametersRaise ==
    resp.op = "create_chunks" =>
        LET len == resp.context[1]
            chunk_size == Requested(resp.context[2], DefaultChunkSize)
            overlap == Requested(resp.context[3], DefaultChunkOverlap)
        IN  /\ chunk_size <= 0 =>
                (resp.result = "ValidationError" /\ resp.arg = "Chunk size must be positive")
            /\ overlap < 0 => resp.result = "ValidationError"
            /\ overlap >= chunk_size => resp.result = "ValidationError"
            /\ (chunk_size > 0 /\ overlap >= 0 /\ overlap < chunk_size /\ len = 0) =>
                (resp.result = "ok" /\ resp.body = <<>>)

\* C19: for non-blank text and a requested chunk_size > 0 and overlap with
\* 0 <= overlap < chunk_size, create_chunks succeeds, splits with exactly the
\* requested chunk_size and overlap, and returns non-empty chunks of at most
\* chunk_size characters.
C19_ValidParametersSplit ==
    resp.op = "create_chunks" =>
        LET len == resp.context[1]
            chunk_size == Requested(resp.context[2], DefaultChunkSize)
            overlap == Requested(resp.context[3], DefaultChunkOverlap)
        IN  (len > 0 /\ chunk_size > 0 /\ overlap >= 0 /\ overlap < chunk_size) =>
                /\ resp.result = "ok"
                /\ resp.body = split_text(len, chunk_size, overlap)
                /\ \A i \in 1..Len(resp.body) :
                        resp.body[i] >= 1 /\ resp.body[i] <= chunk_size


\* the threshold a search_similar call asks for: its score_threshold argument,
\* or the configured default when none is passed
RequestedThreshold(thr) == IF thr = NoThreshold THEN SimilarityThreshold ELSE thr

\* C20: a search_similar call that reaches the index returns exactly the hits
\* that have chunk metadata and whose score is at least the threshold asked
\* for (the score_threshold argument whenever one is passed, 0.0 included),
\* ordered by score, highest first.
C20_CallerThresholdFilters ==
    [][\A a \in QueryArgs, loadOk \in LoadChoices :
        LET s == EnsureInitialized(loadOk) IN
        \A hits \in HitChoices(s, a.blank, a.k, a.embed) :
            LET r == SearchSimilar(s, a.blank, a.k, a.thr, a.embed, hits)
                asked == RequestedThreshold(a.thr)
                wanted == SelectSeq(hits,
                            LAMBDA h : h[2] >= asked /\ h[1] \in DOMAIN s.chunk_metadata)
            IN  (/\ Quiescent
                 /\ ~a.blank /\ a.k > 0 /\ a.embed = "ok" /\ s.index > 0
                 /\ LoadOnly(s)
                 /\ resp' = Resp("search", "", r.result, r.body, <<>>)) =>
                    /\ resp'.result = "ok"
                    /\ {resp'.body[i].chunk_id : i \in 1..Len(resp'.body)}
                          = {wanted[i][1] : i \in 1..Len(wanted)}
                    /\ \A i \in 1..Len(resp'.body) : resp'.body[i].score >= asked
                    /\ \A i, j \in 1..Len(resp'.body) :
                          i < j => resp'.body[i].score >= resp'.body[j].score]_vars

----------------------------------------------------------------------------
\* POST /qa/ask/stream: generate_streaming_response

\* the answers the chat model gives, as sequences of words and whitespace
\* (" " a blank, "nl" a line break)
Whitespace == {" ", "nl"}
SevenWords == <<"w1", " ", "w2", " ", "w3", " ", "w4", " ", "w5", " ", "w6", " ", "w7">>
Answers == {<<>>, <<"w1">>, <<"w1", " ", "w2">>, <<"w1", "nl", "w2">>, SevenWords}

\* str.split(): the words of a text
Split(text) == SelectSeq(text, LAMBDA t : t \notin Whitespace)

\* the words with one blank behind each, stripped: current_text.strip()
Join(words) ==
    [i \in 1..(IF Len(words) = 0 THEN 0 ELSE 2 * Len(words) - 1) |->
        IF i % 2 = 1 THEN words[(i + 1) \div 2] ELSE " "]

\* one server-sent event: its type, the count of a sources_found event, the
\* text of an answer_chunk or complete event and the answer_id it carries
\* ("" for an event without the key)
Event(type, count, text) ==
    [type |-> type, count |-> count, text |-> text, answer_id |-> ""]

\* the values str(uuid.uuid4()) returns
Uuids == {"u1", "u2"}

\* an event that carries an answer_id
IdEvent(type, text, answer_id) ==
    [Event(type, 0, text) EXCEPT !.answer_id = answer_id]

\* after how many words the accumulated text is flushed
FlushEvery == 5

\* the word loop as it would be if it flushed every five words only
RECURSIVE AnswerChunksEveryFive(_, _)
AnswerChunksEveryFive(words, n) ==
    IF n = 0 THEN <<>>
    ELSE LET i == n - 1
             before == AnswerChunksEveryFive(words, n - 1)
         IN  IF i % FlushEvery = 0
             THEN Append(before, Event("answer_chunk", 0, Join(SubSeq(words, 1, n))))
             ELSE before

\* the answer_chunk events of the word loop: one at word index i (from 0)
\* when i % 5 == 0 or i is the last index
RECURSIVE AnswerChunks(_, _)
AnswerChunks(words, n) ==
    IF n = 0 THEN <<>>
    ELSE LET i == n - 1
             before == AnswerChunks(words, n - 1)
         IN  IF i % FlushEvery = 0 \/ i = Len(words) - 1
             THEN Append(before, Event("answer_chunk", 0, Join(SubSeq(words, 1, n))))
             ELSE before

\* the generator up to its first await: the start event and the first status
\* event, then search_similar is awaited
stream_open(blank, max_results, temperature) ==
    /\ stream.pc \in {"idle", "done"}
    /\ \E answer_id \in Uuids :
          stream' = [pc |-> "search", max_results |-> max_results,
                     temperature |-> temperature, blank |-> blank,
                     answer_id |-> answer_id,
                     events |-> <<IdEvent("start", <<>>, answer_id),
                                  Event("status", 0, <<>>)>>]
    /\ UNCHANGED <<ragVars, docVars, qaVars, rateVars, batch, appVars, resp>>

\* search_similar returned or raised: sources_found and the second status
\* event, then answer_question is awaited; an exception gives the error event
stream_searched(embed, loadOk) ==
    /\ stream.pc = "search"
    /\ LET s == EnsureInitialized(loadOk) IN
       \E hits \in HitChoices(s, stream.blank, stream.max_results, embed) :
          LET r == SearchSimilar(s, stream.blank, stream.max_results, NoThreshold,
                                 embed, hits)
          IN  /\ LoadOnly(s)
              /\ stream' =
                   IF r.result = "ok"
                   THEN [stream EXCEPT !.pc = "answer",
                            !.events = @ \o <<Event("sources_found", Len(r.body), <<>>),
                                              Event("status", 0, <<>>)>>]
                   ELSE [stream EXCEPT !.pc = "done",
                            !.events = Append(@, IdEvent("error", <<>>,
                                                         stream.answer_id))]
    /\ UNCHANGED <<docVars, qaVars, rateVars, batch, appVars, resp>>

\* answer_question returned or raised: the answer_chunk events and the
\* complete event with the answer_id answer_question drew for its
\* AnswerResponse, or the error event with the generator's own
stream_answered(answer, llmOk) ==
    /\ stream.pc = "answer"
    /\ LET s == EnsureInitialized(TRUE) IN
       \E hits \in HitChoices(s, stream.blank, stream.max_results, "ok"),
          answer_id \in Uuids :
          LET r == AnswerQuestion(s, stream.blank, stream.max_results, "ok", hits, llmOk)
              words == Split(answer)
          IN  /\ index' = s.index
              /\ chunk_metadata' = s.chunk_metadata
              /\ document_chunks' = s.document_chunks
              /\ initialized' = TRUE
              /\ llm' = ApplyOverrides(llm, stream.temperature, NoOverride)
              /\ stream' =
                   IF r.result = "ok"
                   THEN [stream EXCEPT !.pc = "done",
                            !.events = @ \o AnswerChunks(words, Len(words))
                                         \o <<IdEvent("complete", answer, answer_id)>>]
                   ELSE [stream EXCEPT !.pc = "done",
                            !.events = Append(@, IdEvent("error", <<>>,
                                                         stream.answer_id))]
    /\ UNCHANGED <<disk, tasks, deleted, docVars, qaVars, rateVars, batch, appVars, resp>>

\* One streaming request at a time on a service that documents are added to
NextStream ==
    \/ \E d \in DocIds, n \in 0..MaxChunks, loadOk \in LoadChoices :
            AddCall(1, d, n, DefaultBatchSize, loadOk)
    \/ AddFinish(1, "ok")
    \/ \E blank \in BOOLEAN, k \in KValues \ {0}, t \in Temperatures :
            Quiescent /\ stream_open(blank, k, t)
    \/ \E embed \in EmbedOutcomes, loadOk \in LoadChoices :
            Quiescent /\ stream_searched(embed, loadOk)
    \/ \E answer \in Answers, llmOk \in BOOLEAN :
            /\ Quiescent
            /\ llmOk \/ answer = <<>>
            /\ stream_answered(answer, llmOk)

SpecStream == Init /\ [][NextStream]_vars


\* the types of a sequence of events
Types(events) == [i \in 1..Len(events) |-> events[i].type]

IsPrefix(a, b) == Len(a) <= Len(b) /\ a = SubSeq(b, 1, Len(a))

\* the events in front of the answer of a stream that got that far
Preamble == <<"start", "status", "sources_found", "status">>

\* a finished stream that answered: the preamble, answer_chunk events only,
\* then complete as the last event
AnsweredStream(events) ==
    /\ Len(events) >= 5
    /\ SubSeq(Types(events), 1, 4) = Preamble
    /\ \A i \in 5..(Len(events) - 1) : events[i].type = "answer_chunk"
    /\ events[Len(events)].type = "complete"

\* a finished stream that failed: the beginning of the order up to the await
\* that raised, then the error event as the last event
FailedStream(events) ==
    /\ Len(events) >= 1
    /\ events[Len(events)].type = "error"
    /\ SubSeq(Types(events), 1, Len(events) - 1) \in {SubSeq(Preamble, 1, 2), Preamble}

\* the order of events common to both readings of C21
StreamOrder ==
    LET events == stream.events IN
    /\ stream.pc # "idle" => events[1].type = "start"
    /\ stream.pc = "search" => Types(events) = SubSeq(Preamble, 1, 2)
    /\ stream.pc = "answer" => Types(events) = Preamble
    /\ stream.pc = "done" => (AnsweredStream(events) \/ FailedStream(events))
    /\ \A i, j \in 1..Len(events) :
          (i < j /\ events[i].type = "answer_chunk" /\ events[j].type = "answer_chunk")
              => IsPrefix(events[i].text, events[j].text)

\* the text of the last answer_chunk event of a stream that has one
LastChunkCarries(text(_)) ==
    LET events == stream.events IN
    \A i \in 1..Len(events) :
        (/\ events[i].type = "answer_chunk"
         /\ i < Len(events)
         /\ events[i + 1].type = "complete") =>
            events[i].text = text(events[i + 1].text)

Verbatim(answer) == answer
WordsOf(answer) == Join(Split(answer))

----------------------------------------------------------------------------
\* GET /qa/sessions

\* the session ids of chat_sessions whose user is the caller; nobody's for
\* an anonymous caller
UserSessions(current_user) ==
    {sid \in DOMAIN chat_sessions :
        current_user # None /\ Session(sid).user = current_user}

\* the sort key of a session summary: x.get("last_updated", ...) finds the key,
\* which the summary always has, so the key is the value or None (NoTime)
SortKey(sid) == Session(sid).last_updated

\* list.sort raises TypeError as soon as it compares a None key
SortRaises(sids) ==
    Cardinality(sids) >= 2 /\ \E sid \in sids : SortKey(sid) = NoTime

\* the orders list.sort(reverse=True) can leave the sessions in (sessions with
\* equal keys keep the order of the dict, which the model does not keep)
SortedOrders(sids) ==
    {order \in [1..Cardinality(sids) -> sids] :
        /\ \A i, j \in DOMAIN order : i # j => order[i] # order[j]
        /\ \A i, j \in DOMAIN order : i < j => SortKey(order[i]) >= SortKey(order[j])}

\* list_chat_sessions with the default limit and offset; it answers with the
\* session ids in order and the total count
list_chat_sessions(current_user) ==
    LET sids == UserSessions(current_user) IN
    /\ IF SortRaises(sids)
       THEN resp' = Resp("sessions", current_user, "500", <<>>, <<>>)
       ELSE \E order \in SortedOrders(sids) :
               resp' = Resp("sessions", current_user, "200", order, <<Len(order)>>)
    /\ UNCHANGED <<ragVars, docVars, qaVars, rateVars, apiVars, appVars>>

\* the clock moves while sessions are used
SessionTimes == {0, 30}

SessionTick ==
    /\ \E t \in SessionTimes : t > now /\ now' = t
    /\ UNCHANGED <<request_history, checks, admitted, requests, resp,
                   ragVars, docVars, qaVars, apiVars, appVars>>

\* Chat sessions being created, answered, listed and deleted over time
NextSessions ==
    \/ \E c \in ChatSlots, sid \in SessionIds, user \in Users,
          loadOk \in LoadChoices : chat(c, sid, user, loadOk)
    \/ \E c \in ChatSlots, answered \in BOOLEAN : chat_answered(c, answered)
    \/ \E user \in Users : list_chat_sessions(user)
    \/ \E sid \in SessionIds, user \in Users : delete_chat_session(sid, user)
    \/ SessionTick

SpecSessions == Init /\ [][NextSessions]_vars

\* the key C22 orders by: last_updated, or created_at for a session without
ClaimedKey(sid) ==
    IF Session(sid).last_updated # NoTime THEN Session(sid).last_updated
    ELSE Session(sid).created_at

\* C22: GET /qa/sessions answers 200 with the caller's sessions, most recent
\* first by last_updated, a session without last_updated being ordered by its
\* created_at.
C22_SessionsListed ==
    [][\A user \in Users \ {None} :
        list_chat_sessions(user) =>
            /\ resp'.result = "200"
            /\ Range(resp'.body) = UserSessions(user)
            /\ Len(resp'.body) = Cardinality(UserSessions(user))
            /\ \A i, j \in 1..Len(resp'.body) :
                  i < j => ClaimedKey(resp'.body[i]) >= ClaimedKey(resp'.body[j])]_vars

----------------------------------------------------------------------------
\* URLDocumentService.process_and_answer_questions; in SpecBatch the RAG
\* variables are those of the service's own RAGService

\* max_results of the answer_question calls of the loop
BatchMaxResults == 5

\* what the chat model answers, as sequences of words and whitespace
BatchAnswers == {<<"w1">>, <<"w1", "nl">>, <<"nl">>}

\* str.strip()
RECURSIVE Strip(_)
Strip(text) ==
    IF text = <<>> THEN <<>>
    ELSE IF text[1] \in Whitespace THEN Strip(Tail(text))
    ELSE IF text[Len(text)] \in Whitespace THEN Strip(SubSeq(text, 1, Len(text) - 1))
    ELSE text

Fallback == <<"I could not find sufficient information to answer this question.">>
ErrorSlot == <<"Error processing question">>

\* the string appended for an answer: stripped, the fallback sentence if blank
CleanAnswer(text) == IF Strip(text) = <<>> THEN Fallback ELSE Strip(text)

\* the call raises DocumentProcessingError
BatchRaises ==
    /\ batch' = IdleBatch
    /\ resp' = Resp("batch", "", "DocumentProcessingError", <<>>, <<>>)

\* the call returns its answers
BatchReturns(b) ==
    /\ batch' = [b EXCEPT !.pc = "idle"]
    /\ resp' = Resp("batch", "", "ok", b.answers, <<>>)

\* the call up to the await of the download: _ensure_initialized
batch_call(n, loadOk) ==
    /\ batch.pc = "idle"
    /\ batch' = [pc |-> "download", n |-> n, answers |-> <<>>, returned |-> <<>>]
    /\ LoadOnly(EnsureInitialized(loadOk))
    /\ UNCHANGED <<resp, stream, docVars, qaVars, rateVars, appVars>>

DownloadOutcomes == {"ok", "download_error", "too_large", "processing_error"}

\* the download and process_file ended: raise, or call add_document (which
\* raises for a document without chunks) and await its embeddings
batch_downloaded(outcome, d, chunks) ==
    /\ batch.pc = "download"
    /\ IF outcome # "ok"
       THEN BatchRaises /\ UNCHANGED ragVars
       ELSE /\ add_document_call(1, d, chunks, DefaultBatchSize, TRUE)
            /\ IF chunks = 0 THEN BatchRaises
               ELSE batch' = [batch EXCEPT !.pc = "add"] /\ UNCHANGED resp
    /\ UNCHANGED <<stream, docVars, qaVars, rateVars, appVars>>

\* add_document ended: raise, or start the loop over the questions (return at
\* once when there are none)
batch_added(outcome) ==
    /\ batch.pc = "add"
    /\ IF outcome = "embed_error"
       THEN add_document_embed_fail(1) /\ BatchRaises
       ELSE /\ add_document_finish(1, outcome)
            /\ IF outcome # "ok" THEN BatchRaises
               ELSE IF batch.n = 0 THEN BatchReturns(batch)
               ELSE batch' = [batch EXCEPT !.pc = "answer"] /\ UNCHANGED resp
    /\ UNCHANGED <<stream, docVars, qaVars, rateVars, appVars>>

\* how one answer_question call of the loop ends; whether it returns or
\* raises does not depend on the hits the index returns
AnswerOutcome(embed, llmOk) ==
    AnswerQuestion(EnsureInitialized(TRUE), FALSE, BatchMaxResults, embed, <<>>, llmOk)

\* the loop as it would be if a failing question were skipped
batch_answer_skips_failed(text, embed, llmOk) ==
    /\ batch.pc = "answer"
    /\ LET r == AnswerOutcome(embed, llmOk)
           b == [batch EXCEPT
                  !.answers = IF r.result = "ok" THEN Append(@, CleanAnswer(text))
                              ELSE @,
                  !.returned = Append(@, [ok |-> r.result = "ok", text |-> text])]
       IN  IF Len(b.returned) = b.n THEN BatchReturns(b)
           ELSE batch' = b /\ UNCHANGED resp
    /\ UNCHANGED <<ragVars, stream, docVars, qaVars, rateVars, appVars>>

\* one turn of the loop: answer_question returned (append the cleaned answer)
\* or raised (append the error string); after the last question return
batch_answer(text, embed, llmOk) ==
    /\ batch.pc = "answer"
    /\ LET r == AnswerOutcome(embed, llmOk)
           b == [batch EXCEPT
                  !.answers = Append(@, IF r.result = "ok" THEN CleanAnswer(text)
                                        ELSE ErrorSlot),
                  !.returned = Append(@, [ok |-> r.result = "ok", text |-> text])]
       IN  IF Len(b.returned) = b.n THEN BatchReturns(b)
           ELSE batch' = b /\ UNCHANGED resp
    /\ UNCHANGED <<ragVars, stream, docVars, qaVars, rateVars, appVars>>

\* One process_and_answer_questions call after the other
NextBatch ==
    \/ \E n \in 0..MaxQuestions, loadOk \in LoadChoices : batch_call(n, loadOk)
    \/ \E outcome \in DownloadOutcomes, d \in DocIds, chunks \in 0..MaxChunks :
            batch_downloaded(outcome, d, chunks)
    \/ \E outcome \in SaveOutcomes \cup {"embed_error"} : batch_added(outcome)
    \/ \E text \in BatchAnswers, embed \in {"ok", "error"}, llmOk \in BOOLEAN :
            /\ llmOk \/ (embed = "ok" /\ text = <<"w1">>)
            /\ batch_answer(text, embed, llmOk)

SpecBatch == Init /\ [][NextBatch]_vars

\* C23: when download, processing and indexing succeed, the call returns one
\* string per question, in the order of the questions: slot i is the cleaned
\* answer to question i, or the inline error string when answering question i
\* failed, whatever happened to the other questions.
C23_OneSlotPerQuestion ==
    (batch.pc = "idle" /\ resp.op = "batch" /\ resp.result = "ok") =>
        /\ Len(resp.body) = batch.n
        /\ Len(batch.returned) = batch.n
        /\ \A i \in 1..batch.n :
              resp.body[i] = IF batch.returned[i].ok
                             THEN CleanAnswer(batch.returned[i].text)
                             ELSE ErrorSlot

\* a call with two questions returned after the first question failed and the
\* second was answered
C23_Witness ==
    /\ batch.pc = "idle" /\ resp.op = "batch" /\ resp.result = "ok"
    /\ Len(batch.returned) = 2
    /\ ~batch.returned[1].ok /\ batch.returned[2].ok
    /\ resp.body = <<ErrorSlot, <<"w1">>>>


-----------------------------------------------------------------------------
\* Upload requests that are rejected (documents.py upload_document,
\* deps.py validate_file_upload, save_upload_file, cleanup_temp_file)

\* how a rejected upload request fails: validate_file_upload refuses the file,
\* NamedTemporaryFile cannot create the file, reading or writing the content
\* fails after the file was created, the metadata is not JSON, or another
\* exception is raised before the task is scheduled
RejectOutcomes == {"invalid_file", "no_temp_file", "save_error",
                   "bad_metadata", "schedule_error"}

\* whether save_upload_file has created the temporary file when the request
\* fails with outcome o: NamedTemporaryFile(delete=False) creates it before
\* the content is read
TempFileCreated(o) == o \in {"save_error", "bad_metadata", "schedule_error"}

\* whether upload_document runs cleanup_temp_file for the failure o: only its
\* except clauses do, and save_upload_file is called before its try
CleanedByHandler(o) == o \in {"bad_metadata", "schedule_error"}

\* the status of the response to a rejected upload
RejectStatus(o) == IF o \in {"invalid_file", "bad_metadata"} THEN "400" ELSE "500"

\* upload_document of a request that is rejected with outcome o: no record is
\* set and no background task is scheduled
upload_rejected(o) ==
    /\ uploads < MaxUploads
    /\ uploads' = uploads + 1
    /\ temp_files' = IF TempFileCreated(o) /\ ~CleanedByHandler(o)
                     THEN temp_files \cup {uploads + 1}
                     ELSE temp_files
    /\ resp' = Resp("upload", o, RejectStatus(o), <<>>, <<>>)
    /\ UNCHANGED <<processing_status, status_keys, bg, ragVars, qaVars, rateVars, apiVars, appVars>>

NextUpload ==
    \/ NextDocs
    \/ \E o \in RejectOutcomes : upload_rejected(o)

SpecUpload == Init /\ [][NextUpload]_vars

\* the temporary files of the background tasks that have not finished
PendingTempFiles == {bg[t].temp : t \in {u \in Tasks : bg[u].pc # "idle"}}

\* C24: for every upload request, whatever its outcome, no temporary file
\* created for the request exists once the request and its background task
\* have finished: the files that exist belong to tasks that still run
C24_NoTempFileLeft == temp_files \subseteq PendingTempFiles


-----------------------------------------------------------------------------
\* Concurrent add_document calls for distinct documents on one instance
\* (rag_service.py add_document, tests/test_rag_service.py
\* test_concurrent_operations)

\* an add_document call for a document that no call in flight is adding and
\* that the store does not hold
AddDistinct(t, d, n, bs, loadOk) ==
    /\ d \notin DOMAIN document_chunks
    /\ \A u \in Tasks : tasks[u].doc # d
    /\ AddCall(t, d, n, bs, loadOk)

NextAdds ==
    \/ \E t \in Tasks, d \in DocIds, n \in 0..MaxChunks, bs \in BatchSizes,
          loadOk \in LoadChoices : AddDistinct(t, d, n, bs, loadOk)
    \/ \E t \in Tasks : EmbedFail(t)
    \/ \E t \in Tasks : EmbedBatch(t)
    \/ \E t \in Tasks, outcome \in SaveOutcomes : AddFinish(t, outcome)

SpecAdds == Init /\ [][NextAdds]_vars

\* a step that ends the add_document call of slot t after its first await
AddEndStep(t) == tasks[t].pc = "embed" /\ tasks'[t].pc = "idle"

\* the call of slot t got all its embeddings: its vectors went into the index
AllEmbedded(t) == index' = index + tasks[t].n

\* _save_index wrote both files: the disk holds what the memory holds
SavedAll == OnDisk' = Memory'

-----------------------------------------------------------------------------
\* The middleware stack of the assembled application (main.py create_app,
\* middleware.py). add_middleware puts each middleware around those added
\* before it, so ErrorHandlingMiddleware, added last, is the outermost:
\* ErrorHandlingMiddleware > RequestLoggingMiddleware > CORS > routes.

\* the exceptions ErrorHandlingMiddleware tells apart
Escaping == {"RAGServiceError", "ValueError", "FileNotFoundError",
             "PermissionError", "Exception"}

\* what the application inside the two middlewares does with a request: it
\* answers (a handler's result, or the response the framework builds for an
\* HTTPException) or an exception escapes it
AppOutcomes == [kind : {"response"}, status : {"200", "404", "500"}]
               \cup [kind : {"raise"}, status : Escaping]

\* the status of the JSONResponse ErrorHandlingMiddleware builds for exception e
ErrorStatus(e) ==
    CASE e = "RAGServiceError" -> "400"
      [] e = "ValueError" -> "422"
      [] e = "FileNotFoundError" -> "404"
      [] e = "PermissionError" -> "403"
      [] OTHER -> "500"

\* a request arrives: ErrorHandlingMiddleware.dispatch awaits call_next,
\* RequestLoggingMiddleware.dispatch assigns the request id (a fresh uuid,
\* here the number of the request), logs and awaits call_next
http_request ==
    /\ http.pc = "idle"
    /\ http.n < MaxRequests
    /\ http' = [IdleHttp EXCEPT !.pc = "call_next", !.n = http.n + 1,
                                !.request_id = http.n + 1]
    /\ UNCHANGED <<ragVars, docVars, qaVars, rateVars, apiVars, cfgVars, url_rag, ipVars, resp>>

\* the inner application answers or raises
http_app(o) ==
    /\ http.pc = "call_next"
    /\ http' = [http EXCEPT !.pc = "logging", !.kind = o.kind, !.status = o.status]
    /\ UNCHANGED <<ragVars, docVars, qaVars, rateVars, apiVars, cfgVars, url_rag, ipVars, resp>>

\* RequestLoggingMiddleware.dispatch after call_next: a response is logged
\* and stamped with X-Request-ID, an exception is logged and raised again
http_logging ==
    /\ http.pc = "logging"
    /\ http' = [http EXCEPT !.pc = "error_handling",
                            !.header = IF http.kind = "response"
                                       THEN http.request_id ELSE 0]
    /\ UNCHANGED <<ragVars, docVars, qaVars, rateVars, apiVars, cfgVars, url_rag, ipVars, resp>>

\* ErrorHandlingMiddleware.dispatch after call_next: a response is returned
\* as it is, an exception becomes a new JSONResponse; the response is sent.
\* resp.body holds the request id, resp.context the X-Request-ID headers of
\* the response
http_error_handling ==
    /\ http.pc = "error_handling"
    /\ http' = [http EXCEPT !.pc = "idle"]
    /\ resp' = Resp("http", http.kind,
                    IF http.kind = "response" THEN http.status
                    ELSE ErrorStatus(http.status),
                    <<http.request_id>>,
                    IF http.header = 0 THEN <<>> ELSE <<http.header>>)
    /\ UNCHANGED <<ragVars, docVars, qaVars, rateVars, apiVars, cfgVars, url_rag, ipVars>>

NextHttp ==
    \/ http_request
    \/ \E o \in AppOutcomes : http_app(o)
    \/ http_logging
    \/ http_error_handling

SpecHttp == Init /\ [][NextHttp]_vars

\* C26: every response the application sends, the error responses of the
\* error-handling middleware included, carries an X-Request-ID header that
\* holds the request's id
C26_ResponsesCarryRequestId ==
    resp.op = "http" => resp.context = resp.body


-----------------------------------------------------------------------------
\* GET /documents/ (documents.py list_documents, deps.py validate_pagination)

MaxLimit == 100
Limits == {0, 1, MaxLimit, MaxLimit + 1}
Offsets == {-1, 0, 1, 2}

\* validate_pagination raises HTTPException 400
PaginationRejected(limit, offset) == limit <= 0 \/ limit > MaxLimit \/ offset < 0

\* list_documents as it would be if the slice ended at index limit
list_documents_to_limit(limit, offset) ==
    /\ resp' = IF PaginationRejected(limit, offset)
               THEN Resp("list", "", "400", <<>>, <<>>)
               ELSE LET all_docs == status_keys
                        paginated_docs == PySlice(all_docs, offset, limit)
                    IN  Resp("list", "", "200", paginated_docs,
                             <<Len(all_docs), limit, offset>>)
    /\ UNCHANGED <<ragVars, docVars, qaVars, rateVars, apiVars, appVars>>

\* list_documents: one step, it awaits nothing. resp.body holds the ids of
\* the documents returned, resp.context total_count, limit and offset
list_documents(limit, offset) ==
    /\ resp' = IF PaginationRejected(limit, offset)
               THEN Resp("list", "", "400", <<>>, <<>>)
               ELSE LET all_docs == status_keys
                        paginated_docs == PySlice(all_docs, offset, offset + limit)
                    IN  Resp("list", "", "200", paginated_docs,
                             <<Len(all_docs), limit, offset>>)
    /\ UNCHANGED <<ragVars, docVars, qaVars, rateVars, apiVars, appVars>>

\* no background task is scheduled or running
NoTaskRuns == \A t \in Tasks : bg[t].pc = "idle"

\* The document API listed between uploads that are ingested without
\* failure and deletions that succeed
NextList ==
    \/ \E t \in Tasks, id \in DocIds : upload_document(t, id)
    \/ \E t \in Tasks, loadOk \in LoadChoices :
            process_document_background(t, 1, TRUE, loadOk)
    \/ \E t \in Tasks : background_finish(t, "ok")
    \/ \E id \in DocIds : documents_delete_document(id, "ok")
    \/ \E limit \in Limits, offset \in Offsets :
            NoTaskRuns /\ list_documents(limit, offset)

SpecList == Init /\ [][NextList]_vars

\* the number of documents at positions offset.. of which at most limit are taken
PageLength(limit, offset) ==
    LET rest == Len(status_keys) - offset
    IN  IF rest <= 0 THEN 0 ELSE Min(limit, rest)

\* C27: GET /documents/ rejects with 400 a limit outside 1..100 and an
\* offset below 0 and lists nothing; otherwise it returns the tracked
\* documents at positions offset..offset+limit-1 of the status map's
\* insertion order, total_count the number of all tracked documents, and the
\* limit and offset it was given
C27_Pagination ==
    [][\A limit \in Limits, offset \in Offsets :
        list_documents(limit, offset) =>
            IF limit < 1 \/ limit > 100 \/ offset < 0
            THEN resp'.result = "400" /\ resp'.body = <<>> /\ resp'.context = <<>>
            ELSE /\ resp'.result = "200"
                 /\ resp'.body = [i \in 1..PageLength(limit, offset) |->
                                     status_keys[offset + i]]
                 /\ Len(resp'.body) <= limit
                 /\ resp'.context = <<Cardinality(DOMAIN processing_status),
                                      limit, offset>>]_vars

\* the second page of one document out of two, the later upload's id being
\* the smaller one
C27_Witness ==
    /\ resp.op = "list" /\ resp.result = "200"
    /\ resp.context = <<2, 1, 1>>
    /\ resp.body = <<"doc_a">>
    /\ status_keys = <<"doc_b", "doc_a">>


-----------------------------------------------------------------------------
\* GET /health/detailed (health.py detailed_health_check)

CheckNames == {"gemini_config", "vector_store", "filesystem", "system_resources"}

UsageLimit == 90
Usages == {50, UsageLimit, 95}

\* what a check finds: the value it reads ("yes" for a true one), or "raise"
\* when reading it raises; the resources check reads three percentages
Found == {"yes", "no", "raise"}
NoUsage == [memory |-> 0, disk |-> 0, cpu |-> 0, raise |-> TRUE]
Findings == [gemini_config : Found,
             vector_store : Found,
             filesystem : Found,
             system_resources : [memory : Usages, disk : Usages, cpu : Usages,
                                 raise : {FALSE}] \cup {NoUsage}]

\* the entry of one check in health_data["checks"]; usage holds the
\* percentages the resources check reports
Check(status, message) == [status |-> status, message |-> message, usage |-> <<>>]

gemini_config(f) ==
    IF f = "raise" THEN Check("unhealthy", "Google Gemini configuration error")
    ELSE IF f = "yes" THEN Check("healthy", "Google Gemini API key configured")
    ELSE Check("warning", "Google Gemini API key not configured")

vector_store(f) ==
    IF f = "raise" THEN Check("unhealthy", "Vector store check error")
    ELSE IF f = "yes" THEN Check("healthy", "Vector store accessible")
    ELSE Check("unhealthy", "Vector store not accessible")

filesystem(f) ==
    IF f = "raise" THEN Check("unhealthy", "File system check error")
    ELSE IF f = "yes" THEN Check("healthy", "File system writable")
    ELSE Check("unhealthy", "File system not writable")

\* the entry of the resources check carries the three percentages it read
system_resources(f) ==
    IF f.raise THEN Check("warning", "Resource check error")
    ELSE [status |-> IF f.memory < UsageLimit /\ f.disk < UsageLimit
                        /\ f.cpu < UsageLimit
                     THEN "healthy" ELSE "warning",
          message |-> "",
          usage |-> <<f.memory, f.disk, f.cpu>>]

\* health_data["checks"] after the four try blocks
Checks(f) ==
    [c \in CheckNames |->
        CASE c = "gemini_config" -> gemini_config(f.gemini_config)
          [] c = "vector_store" -> vector_store(f.vector_store)
          [] c = "filesystem" -> filesystem(f.filesystem)
          [] OTHER -> system_resources(f.system_resources)]

\* the overall status as it would be if warnings were looked for first
OverallWarningFirst(cs) ==
    IF \E c \in DOMAIN cs : cs[c].status = "warning" THEN "warning"
    ELSE IF \E c \in DOMAIN cs : cs[c].status = "unhealthy" THEN "unhealthy"
    ELSE "healthy"

\* the overall status: unhealthy_checks first, then warning_checks
Overall(cs) ==
    IF \E c \in DOMAIN cs : cs[c].status = "unhealthy" THEN "unhealthy"
    ELSE IF \E c \in DOMAIN cs : cs[c].status = "warning" THEN "warning"
    ELSE "healthy"

\* detailed_health_check: one step. resp.body holds health_data["checks"],
\* resp.context the overall status and resp.arg what the checks found; an
\* unhealthy result is raised as HTTPException 503 with health_data as its
\* detail
detailed_health_check(f) ==
    /\ LET cs == Checks(f)
           overall == Overall(cs)
       IN  resp' = Resp("health", f, IF overall = "unhealthy" THEN "503" ELSE "200",
                        cs, <<overall>>)
    /\ UNCHANGED <<ragVars, docVars, qaVars, rateVars, apiVars, appVars>>

NextHealth == \E f \in Findings : detailed_health_check(f)

SpecHealth == Init /\ [][NextHealth]_vars

\* the statuses among the reported checks
Reported == {resp.body[c].status : c \in DOMAIN resp.body}

\* the status a check must report for what it finds, its exception included
Expected(c, f) ==
    CASE c = "gemini_config" ->
            IF f[c] = "raise" THEN "unhealthy"
            ELSE IF f[c] = "yes" THEN "healthy" ELSE "warning"
      [] c \in {"vector_store", "filesystem"} ->
            IF f[c] = "yes" THEN "healthy" ELSE "unhealthy"
      [] OTHER ->
            IF ~f[c].raise /\ f[c].memory < 90 /\ f[c].disk < 90 /\ f[c].cpu < 90
            THEN "healthy" ELSE "warning"

\* C28: the detailed health check reports all four checks; its overall
\* status is unhealthy with 503 iff a check is unhealthy, otherwise warning
\* with 200 iff a check warns, otherwise healthy with 200; and every check
\* is evaluated and reported for what it finds whatever the other checks
\* do, an exception inside another check included
C28_HealthCheck ==
    resp.op = "health" =>
        /\ DOMAIN resp.body = CheckNames
        /\ (resp.context = <<"unhealthy">> /\ resp.result = "503")
                <=> "unhealthy" \in Reported
        /\ (resp.context = <<"warning">> /\ resp.result = "200")
                <=> ("unhealthy" \notin Reported /\ "warning" \in Reported)
        /\ (resp.context = <<"healthy">> /\ resp.result = "200")
                <=> Reported = {"healthy"}
        /\ \A c \in CheckNames : resp.body[c].status = Expected(c, resp.arg)

\* a check raised (the first one), the response is 503 and the resources
\* check, the last one, reports a warning for the cpu usage it read
C28_Witness ==
    /\ resp.op = "health" /\ resp.result = "503"
    /\ resp.arg.gemini_config = "raise"
    /\ resp.body["gemini_config"].message = "Google Gemini configuration error"
    /\ resp.body["vector_store"].status = "healthy"
    /\ resp.body["system_resources"].status = "warning"
    /\ resp.body["system_resources"].usage = <<50, 50, 95>>


-----------------------------------------------------------------------------
\* The confidence of an answer (rag_service.py _calculate_confidence, called
\* by answer_question on used_sources)

\* similarity scores of the chunks a search returns, in percent
ConfidenceScores == {50, 90, 100}

\* confidences are counted in 1/3000: a percent of score weighs 0.7 / 100 =
\* 21/3000, a third of source_count_factor 0.3 / 3 = 300/3000
ConfidenceUnit == 3000
ScoreWeight == 21
SourceWeight == 300

\* _calculate_confidence as it would be if it took the last source's score
calculate_confidence_last(sources) ==
    IF sources = <<>> THEN 0
    ELSE LET top_score == sources[Len(sources)].score
             source_count_factor == Min(Len(sources), 3)
             confidence == top_score * ScoreWeight + source_count_factor * SourceWeight
         IN  Min(confidence, ConfidenceUnit)

\* _calculate_confidence: 0.0 without sources, else
\* min(sources[0].score * 0.7 + min(len(sources) / 3.0, 1.0) * 0.3, 1.0)
calculate_confidence(sources) ==
    IF sources = <<>> THEN 0
    ELSE LET top_score == sources[1].score
             source_count_factor == Min(Len(sources), 3)
             confidence == top_score * ScoreWeight + source_count_factor * SourceWeight
         IN  Min(confidence, ConfidenceUnit)

\* the scores index.search returned for the rows that pass the filters of
\* search_similar, in the order of the rows
FoundScores == UNION {[1..n -> ConfidenceScores] : n \in 0..MaxSources}

\* answer_question from the search results to the confidence: search_similar
\* sorts its results by score, the context loop uses the first `used` of them
\* (it stops at the first that does not fit), and the confidence is that of
\* the used sources. resp.body holds used_sources, resp.context the confidence
answer_confidence(found, used) ==
    /\ used <= Len(found)
    /\ LET search_results == SortByScore([i \in 1..Len(found) |->
                                 [chunk_id |-> i, score |-> found[i]]])
           used_sources == SubSeq(search_results, 1, used)
       IN  resp' = Resp("confidence", "", "ok", used_sources,
                        <<calculate_confidence(used_sources)>>)
    /\ UNCHANGED <<ragVars, docVars, qaVars, rateVars, apiVars, appVars>>

NextConfidence ==
    \E found \in FoundScores, used \in 0..MaxSources : answer_confidence(found, used)

SpecConfidence == Init /\ [][NextConfidence]_vars

\* the highest score among the sources
RECURSIVE TopScore(_)
TopScore(sources) ==
    IF Len(sources) = 1 THEN sources[1].score
    ELSE LET rest == TopScore(Tail(sources))
         IN  IF sources[1].score >= rest THEN sources[1].score ELSE rest

\* C29: an answer's confidence is 0.0 when no sources were used and
\* otherwise min(1.0, 0.7*top + 0.3*min(n/3, 1)) for the n used sources and
\* the highest score top among them (in 1/3000, the score in percent); it
\* lies between 0 and 1
C29_Confidence ==
    resp.op = "confidence" =>
        LET n == Len(resp.body)
            confidence == resp.context[1]
        IN  /\ n = 0 => confidence = 0
            /\ n > 0 => confidence =
                  Min(3000, 21 * TopScore(resp.body) + 300 * Min(n, 3))
            /\ confidence >= 0 /\ confidence <= 3000

\* two used sources of different scores, the better one found second
C29_Witness ==
    /\ resp.op = "confidence"
    /\ Len(resp.body) = 2
    /\ resp.body[1] = [chunk_id |-> 2, score |-> 90]
    /\ resp.body[2].score = 50
    /\ resp.context = <<2490>>


-----------------------------------------------------------------------------
\* The cached settings (config.py get_settings, an lru_cache over Settings())

\* values of GOOGLE_API_KEY in the environment; "" stands for a variable
\* that is not set, with which Settings() raises a validation error (the
\* field is required)
EnvValues == {"", "test_key_1", "test_key_2"}

\* the environment changes (os.environ is assigned)
set_environ(v) ==
    /\ v # environ
    /\ environ' = v
    /\ UNCHANGED <<settings_cache, built, http, url_rag, ipVars, resp,
                   ragVars, docVars, qaVars, rateVars, apiVars>>

\* get_settings as it would be if a changed environment made it build again
get_settings_follows_environ ==
    /\ IF settings_cache # NoSettings /\ built[settings_cache] = environ
       THEN /\ resp' = Resp("get_settings", built[settings_cache], "ok",
                            <<settings_cache>>, <<>>)
            /\ UNCHANGED <<settings_cache, built>>
       ELSE IF environ = ""
       THEN /\ resp' = Resp("get_settings", "", "ValidationError", <<>>, <<>>)
            /\ UNCHANGED <<settings_cache, built>>
       ELSE /\ Len(built) < MaxSettings
            /\ built' = Append(built, environ)
            /\ settings_cache' = Len(built) + 1
            /\ resp' = Resp("get_settings", environ, "ok", <<Len(built) + 1>>, <<>>)
    /\ UNCHANGED <<environ, http, url_rag, ipVars, ragVars, docVars, qaVars, rateVars, apiVars>>

\* get_settings(): a cache hit returns the cached object; a miss calls
\* Settings(), which reads the environment, and caches the new object unless
\* Settings() raised. resp.body holds the object returned, resp.arg its
\* google_api_key
get_settings ==
    /\ IF settings_cache # NoSettings
       THEN /\ resp' = Resp("get_settings", built[settings_cache], "ok",
                            <<settings_cache>>, <<>>)
            /\ UNCHANGED <<settings_cache, built>>
       ELSE IF environ = ""
       THEN /\ resp' = Resp("get_settings", "", "ValidationError", <<>>, <<>>)
            /\ UNCHANGED <<settings_cache, built>>
       ELSE /\ Len(built) < MaxSettings
            /\ built' = Append(built, environ)
            /\ settings_cache' = Len(built) + 1
            /\ resp' = Resp("get_settings", environ, "ok", <<Len(built) + 1>>, <<>>)
    /\ UNCHANGED <<environ, http, url_rag, ipVars, ragVars, docVars, qaVars, rateVars, apiVars>>

\* get_settings.cache_clear()
cache_clear ==
    /\ settings_cache' = NoSettings
    /\ resp' = Resp("cache_clear", "", "ok", <<>>, <<>>)
    /\ UNCHANGED <<environ, built, http, url_rag, ipVars, ragVars, docVars, qaVars, rateVars, apiVars>>

NextSettings ==
    \/ \E v \in EnvValues : set_environ(v)
    \/ get_settings
    \/ cache_clear

SpecSettings == Init /\ [][NextSettings]_vars

\* the call before this one returned an object and cache_clear was not
\* invoked since (resp is that of the last get_settings or cache_clear)
ReturnedBefore == resp.op = "get_settings" /\ resp.result = "ok"

\* C30: get_settings returns the identical object on every call until
\* cache_clear is invoked, whatever happens to the environment in between;
\* the first call after cache_clear that finds a valid environment builds a
\* new object, distinct from all earlier ones, from the environment as it is
\* at that moment, and no object changes afterwards
C30_SettingsCached ==
    [][/\ get_settings =>
            IF ReturnedBefore
            THEN resp'.result = "ok" /\ resp'.body = resp.body /\ resp'.arg = resp.arg
            ELSE IF environ = "" THEN resp'.result = "ValidationError"
            ELSE /\ resp'.result = "ok"
                 /\ resp'.body[1] \notin DOMAIN built
                 /\ built'[resp'.body[1]] = environ
                 /\ resp'.arg = environ
       /\ \A o \in DOMAIN built : o \in DOMAIN built' /\ built'[o] = built[o]]_vars

\* the environment changed after the first object was built: the object
\* returned still has the first key, and after cache_clear a second object
\* with the second key was built
C30_Witness ==
    /\ built = <<"test_key_1", "test_key_2">>
    /\ resp = Resp("get_settings", "test_key_2", "ok", <<2>>, <<>>)
    /\ environ = "test_key_1"


-----------------------------------------------------------------------------
\* Row bookkeeping of add_document and delete_document

\* C31: whatever the interleaving of concurrent add_document calls, documents
\* of several embedding batches included, the row lists of different
\* documents in document_chunks are disjoint and the chunk_metadata entry of
\* every listed row names the document that lists it
C31_RowsBelongToOneDocument ==
    \A d \in DOMAIN document_chunks :
        /\ \A e \in (DOMAIN document_chunks) \ {d} :
              Range(document_chunks[d]) \cap Range(document_chunks[e]) = {}
        /\ \A r \in Range(document_chunks[d]) :
              r \in DOMAIN chunk_metadata => chunk_metadata[r].document_id = d


\* C32: in every reachable state the keys of chunk_metadata are the union of
\* the row lists of document_chunks, and the document_id of every
\* chunk_metadata entry is the document whose list holds the row; also after
\* an id was added more than once and after it was deleted
C32_MetadataMatchesRowLists ==
    /\ DOMAIN chunk_metadata =
          UNION {Range(document_chunks[d]) : d \in DOMAIN document_chunks}
    /\ \A r \in DOMAIN chunk_metadata :
          /\ chunk_metadata[r].document_id \in DOMAIN document_chunks
          /\ r \in Range(document_chunks[chunk_metadata[r].document_id])


-----------------------------------------------------------------------------
\* The status records and the vector store

\* C33: whenever a status record shows completed, its document id is a key
\* of the RAG service's document_chunks, for as long as the record exists
C33_CompletedIsIndexed ==
    \A id \in DOMAIN processing_status :
        processing_status[id].status = "completed" => id \in DOMAIN document_chunks


\* C34: a record that shows completed has progress 1.0 (100 percent here),
\* steps_completed equal to total_steps and a chunk_count, and no step
\* lowers the progress of a record that stays in the status map, uploads that
\* share a document id included
C34_CompletedIsFullAndProgressGrows ==
    /\ [](\A id \in DOMAIN processing_status :
            processing_status[id].status = "completed" =>
                /\ processing_status[id].progress = 100
                /\ processing_status[id].steps_completed =
                       processing_status[id].total_steps
                /\ processing_status[id].chunk_count # NoCount)
    /\ [][\A id \in DOMAIN processing_status \cap DOMAIN processing_status' :
            processing_status'[id].progress >= processing_status[id].progress]_vars


\* the record under id was stored by the latest upload, it shows processing
\* and the upload's background task has not ended
StillProcessing(id) ==
    /\ id \in DOMAIN processing_status
    /\ processing_status[id].status = "processing"
    /\ \E t \in Tasks : bg[t].id = id /\ bg[t].pc # "idle" /\ bg[t].temp = uploads

\* a step of DELETE /documents/{id}
DeleteRequestStep(id) ==
    /\ resp'.op = "doc_delete" /\ resp'.arg = id
    /\ UNCHANGED <<bg, uploads>>

\* C35: a DELETE for a record whose document has not reached the vector
\* index answers 404 and leaves the record in the status map
C35_UnindexedRecordStays ==
    [][\A id \in DocIds :
          StillProcessing(id) /\ DeleteRequestStep(id) =>
              /\ resp'.result = "404"
              /\ id \in DOMAIN processing_status'
              /\ processing_status'[id] = processing_status[id]]_vars


----------------------------------------------------------------------------
\* The chat call and the owner of a session

\* C36: a chat call that names an existing session recorded as owned by
\* another identity than the caller's (a caller with no resolved identity
\* included) adds no message to that session
C36_ChatByOwnerOnly ==
    [][\A c \in ChatSlots, sid \in SessionIds, user \in Users,
          loadOk \in LoadChoices :
        (/\ chat(c, sid, user, loadOk)
         /\ sid \in DOMAIN chat_sessions
         /\ Session(sid).user # user)
            => session_objs'[chat_sessions[sid]].messages = Session(sid).messages]_vars


\* the roles of a message list alternate user, assistant, starting with user
Alternates(messages) ==
    \A i \in 1..Len(messages) :
        messages[i].role = (IF i % 2 = 1 THEN "user" ELSE "assistant")

\* C37: outside a chat call in flight on it, the messages of every chat
\* session strictly alternate user, assistant, starting with a user message,
\* and each assistant message directly follows the user message it answers
C37_MessagesAlternate ==
    \A sid \in DOMAIN chat_sessions :
        (\A c \in ChatSlots : chats[c].pc = "idle" \/ chats[c].session # chat_sessions[sid])
            => LET messages == Session(sid).messages IN
               /\ Alternates(messages)
               /\ Len(messages) % 2 = 0
               /\ \A i \in 1..Len(messages) :
                     messages[i].role = "assistant" =>
                         messages[i - 1] = [role |-> "user", turn |-> messages[i].turn]


----------------------------------------------------------------------------
\* Two RAGService instances over one vector-store directory: the cached
\* instance of the API routes (get_rag_service) and the instance the
\* URLDocumentService of a /hackrx/run request constructs for itself

\* process_and_answer_questions up to the await of the download: a fresh
\* RAGService whose _ensure_initialized loads what the directory holds
url_service_call(loadOk) ==
    /\ url_rag.pc = "none"
    /\ url_rag' = IF DiskPresent /\ loadOk
                  THEN [pc |-> "ready", index |-> disk.index,
                        chunk_metadata |-> disk.chunk_metadata,
                        document_chunks |-> disk.document_chunks]
                  ELSE [NoUrlRag EXCEPT !.pc = "ready", !.index = 0]
    /\ UNCHANGED <<resp, ragVars, docVars, qaVars, rateVars, apiVars, http, cfgVars,
                   ipVars>>

UrlAddOutcomes == SaveOutcomes \cup {"embed_error"}

\* the rest of the request: add_document of the downloaded document d (a
\* fresh uuid) with n chunks on the request's own instance, which no other
\* coroutine uses: the rows follow the instance's vector count, the maps are
\* extended and _save_index writes the instance's state into the directory
url_service_add(d, n, outcome) ==
    /\ url_rag.pc = "ready"
    /\ d \notin DOMAIN url_rag.document_chunks
    /\ url_rag.index + n <= MaxRows
    /\ url_rag' = NoUrlRag
    /\ IF n = 0 \/ outcome = "embed_error"
       THEN /\ resp' = Resp("url_add", d, "DocumentProcessingError", <<>>, <<>>)
            /\ UNCHANGED disk
       ELSE LET rows == PyRange(url_rag.index, url_rag.index + n)
                meta == AddMetadata(url_rag.chunk_metadata, d, rows)
                dc == DictPut(url_rag.document_chunks, d, rows)
            IN  /\ disk' = SaveIndex(disk, url_rag.index + n, meta, dc, outcome)
                /\ resp' = Resp("url_add", d,
                                IF outcome = "ok" THEN "ok"
                                ELSE "DocumentProcessingError", <<>>, <<>>)
    /\ UNCHANGED <<index, chunk_metadata, document_chunks, initialized, tasks, llm,
                   deleted, docVars, qaVars, rateVars, apiVars, http, cfgVars,
                   ipVars>>

\* The two instances at work on the one directory; reading the files
\* succeeds and so does the save of a delete
NextShared ==
    \/ \E t \in Tasks, d \in DocIds, n \in 1..MaxChunks :
            AddDistinct(t, d, n, DefaultBatchSize, TRUE)
    \/ \E t \in Tasks : EmbedFail(t)
    \/ \E t \in Tasks, outcome \in SaveOutcomes : AddFinish(t, outcome)
    \/ \E d \in DocIds : DeleteCall(d, "ok")
    \/ url_service_call(TRUE)
    \/ \E d \in DocIds, n \in 0..MaxChunks, outcome \in UrlAddOutcomes :
            url_service_add(d, n, outcome)

SpecShared == Init /\ [][NextShared]_vars

\* a step in which the request's instance completes its add_document
UrlAdded == url_rag.pc = "ready" /\ resp'.op = "url_add" /\ resp'.result = "ok"

\* a step in which the cached instance completes an add_document or a
\* delete_document
CachedSaved ==
    /\ UNCHANGED url_rag
    /\ disk' # disk
    /\ disk'.document_chunks = document_chunks'

\* C38: a document one instance persisted is still in the metadata on disk
\* after the other instance completes its next add_document or
\* delete_document
C38_SharedDirectoryKeepsDocuments ==
    [][/\ UrlAdded =>
            DOMAIN disk.document_chunks \subseteq DOMAIN disk'.document_chunks
       /\ CachedSaved =>
            \A d \in (DOMAIN disk.document_chunks) \ (DOMAIN document_chunks) :
                d \in deleted' \/ d \in DOMAIN disk'.document_chunks]_vars


----------------------------------------------------------------------------
\* The answer_id of a stream's events

\* C39: the events of one stream that carry an answer_id (start, complete,
\* error) all carry the same one
C39_OneAnswerId ==
    LET events == stream.events IN
    \A i, j \in 1..Len(events) :
        (events[i].answer_id # "" /\ events[j].answer_id # "")
            => events[i].answer_id = events[j].answer_id


----------------------------------------------------------------------------
\* RateLimitingMiddleware (app/middleware.py): the per-IP limit

\* requests_per_minute the middleware is installed with
RequestsPerMinute == 2

\* requests the middleware sees in a run
MaxIpRequests == 4

WindowLength == 60
RetryAfter == 60

\* int(current_time // 60)
MinuteWindow(t) == t \div WindowLength

\* the dict without the keys of windows before the previous one
CleanOldWindows(counts, minute_window) ==
    [key \in {k \in DOMAIN counts : k[2] >= minute_window - 1} |-> counts[key]]

\* the count of the client's key of the current window (the sum runs over
\* the one key that matches)
CurrentRequests(counts, client_ip, minute_window) ==
    IF <<client_ip, minute_window>> \in DOMAIN counts
    THEN counts[<<client_ip, minute_window>>] ELSE 0

\* dispatch: a request under /health is passed on at once; any other one
\* cleans the old windows, is answered 429 when the client's count of the
\* current minute window has reached the limit, and is counted and passed on
\* otherwise.  The steps up to call_next contain no await.
dispatch(client_ip, health) ==
    LET minute_window == MinuteWindow(now)
        cleaned == CleanOldWindows(request_counts, minute_window)
        current_requests == CurrentRequests(cleaned, client_ip, minute_window)
        key == <<client_ip, minute_window>>
    IN
    /\ requests < MaxIpRequests
    /\ requests' = requests + 1
    /\ IF health
       THEN /\ resp' = Resp("dispatch", client_ip, "passed", <<"health">>, <<>>)
            /\ UNCHANGED ipVars
       ELSE IF current_requests >= RequestsPerMinute
       THEN /\ resp' = Resp("dispatch", client_ip, "429", <<"api">>, <<RetryAfter>>)
            /\ request_counts' = cleaned
            /\ UNCHANGED passed
       ELSE /\ resp' = Resp("dispatch", client_ip, "passed", <<"api">>, <<>>)
            /\ request_counts' = DictPut(cleaned, key, current_requests + 1)
            /\ passed' = [passed EXCEPT ![client_ip] = Append(@, now)]
    /\ UNCHANGED <<now, request_history, checks, admitted, ragVars, docVars, qaVars,
                   apiVars, http, cfgVars, url_rag>>

\* Requests of the clients as the clock advances
NextIpRate ==
    \/ \E client_ip \in Ips, health \in BOOLEAN : dispatch(client_ip, health)
    \/ Tick

SpecIpRate == Init /\ [][NextIpRate]_vars

\* C40: no client ip has more than the limit of counted requests passed on
\* within any 60 seconds, a rejected request is answered 429 with
\* Retry-After 60, and a request under /health is passed on and not counted
C40_SlidingWindow ==
    /\ [](\A ip \in Ips : \A i \in 1..Len(passed[ip]) :
            Cardinality({j \in 1..Len(passed[ip]) :
                            /\ passed[ip][j] <= passed[ip][i]
                            /\ passed[ip][j] > passed[ip][i] - WindowLength})
                <= RequestsPerMinute)
    /\ [](resp.op = "dispatch" /\ resp.result = "429" => resp.context = <<RetryAfter>>)
    /\ [](resp.op = "dispatch" /\ resp.body = <<"health">> => resp.result = "passed")
    /\ [][resp'.op = "dispatch" /\ resp'.body = <<"health">> /\ requests' # requests
            => UNCHANGED ipVars]_vars

====
